---- MODULE Spec2Model ----
(***************************************************************************)
(* Model of the pool-cue asset scripts.                                    *)
(*                                                                         *)
(* One run executes one script.  Spec models scripts/add_cue_customizable_layer.py: the cylinder shell   *)
(* generator create_cylinder_mesh_data and main(), which splices the shell *)
(* into an existing glTF document (buffer, bufferViews, accessors,         *)
(* material, mesh, node, scene).                                           *)
(*                                                                         *)
(* Numbers.  The script computes in IEEE floats; the model computes in     *)
(* fixed point with Scale units per 1.0 (2.15 is 2150).  cos and sin are   *)
(* evaluated by range reduction and a Taylor polynomial in that fixed      *)
(* point, so every float result is modelled to within a few units of       *)
(* 1/Scale; rounding effects below that resolution are not represented.    *)
(* A float32 is serialised as the 4 little-endian bytes of its fixed-point *)
(* value, a uint16 as its 2 little-endian bytes.                           *)
(***************************************************************************)
EXTENDS Integers, Sequences, FiniteSets, TLC

VARIABLES
    pc,                 \* position of main()
    params,             \* SEGMENTS, RADIUS, HEIGHT_START, HEIGHT_END
    input_file,         \* content of INPUT_FILE on disk
    output_file,        \* content of OUTPUT_FILE on disk
    gltf,               \* the loaded GLTF2 object
    existing_data,      \* bytes of buffer 0 before the run
    positions, normals, uvs, indices,
    positions_bytes, normals_bytes, uvs_bytes, indices_bytes,
    positions_offset, normals_offset, uvs_offset, indices_offset,
    new_buffer_data,
    positions_bv_idx, normals_bv_idx, uvs_bv_idx, indices_bv_idx,
    positions_acc_idx, normals_acc_idx, uvs_acc_idx, indices_acc_idx,
    material_idx, mesh_idx, node_idx,
    script,             \* the script this run executes
    bpc,                \* position of a script that runs inside Blender
    scene,              \* Blender's data: objects, materials, active, mode
    loc,                \* local variables of the Blender script
    files               \* files read and written by the Blender script

vars == <<pc, params, input_file, output_file, gltf, existing_data,
          positions, normals, uvs, indices,
          positions_bytes, normals_bytes, uvs_bytes, indices_bytes,
          positions_offset, normals_offset, uvs_offset, indices_offset,
          new_buffer_data,
          positions_bv_idx, normals_bv_idx, uvs_bv_idx, indices_bv_idx,
          positions_acc_idx, normals_acc_idx, uvs_acc_idx, indices_acc_idx,
          material_idx, mesh_idx, node_idx,
          script, bpc, scene, loc, files>>

\* the state of Blender, untouched by a script that runs outside of it
hostVars == <<script, bpc, scene, loc, files>>
HostIdle ==
    /\ bpc = "none"
    /\ scene = <<>>
    /\ loc = <<>>
    /\ files = <<>>

(***************************************************************************)
(* Bounds of the model.                                                    *)
(***************************************************************************)
MaxSegments == 5
MaxExistingWords == 1
MaxOld == 1

(***************************************************************************)
(* Fixed-point arithmetic standing for the script's floats.                *)
(***************************************************************************)
Scale == 1000
PiFx == 3142
HalfPiFx == PiFx \div 2
QuarterPiFx == PiFx \div 4
TwoPiFx == 2 * PiFx

\* cos x for 0 <= x <= pi/4: 1 - x^2/2! + x^4/4! - x^6/6!
CosT(x) ==
    LET x2 == (x * x) \div Scale
        t1 == x2 \div 2
        t2 == (t1 * x2) \div (12 * Scale)
        t3 == (t2 * x2) \div (30 * Scale)
    IN  Scale - t1 + t2 - t3

\* sin x for 0 <= x <= pi/4: x - x^3/3! + x^5/5! - x^7/7!
SinT(x) ==
    LET x2 == (x * x) \div Scale
        t1 == (x * x2) \div (6 * Scale)
        t2 == (t1 * x2) \div (20 * Scale)
        t3 == (t2 * x2) \div (42 * Scale)
    IN  x - t1 + t2 - t3

\* first quadrant, 0 <= x <= pi/2
CosQ(x) == IF x <= QuarterPiFx THEN CosT(x) ELSE SinT(HalfPiFx - x)
SinQ(x) == IF x <= QuarterPiFx THEN SinT(x) ELSE CosT(HalfPiFx - x)

\* np.cos / np.sin of an angle in fixed-point radians
Cos(a) ==
    LET m == a % TwoPiFx
    IN  IF m <= HalfPiFx THEN CosQ(m)
        ELSE IF m <= PiFx THEN 0 - CosQ(PiFx - m)
        ELSE IF m <= PiFx + HalfPiFx THEN 0 - CosQ(m - PiFx)
        ELSE CosQ(TwoPiFx - m)

Sin(a) ==
    LET m == a % TwoPiFx
    IN  IF m <= HalfPiFx THEN SinQ(m)
        ELSE IF m <= PiFx THEN SinQ(PiFx - m)
        ELSE IF m <= PiFx + HalfPiFx THEN 0 - SinQ(m - PiFx)
        ELSE 0 - SinQ(TwoPiFx - m)

\* float product, float quotient of two ints
Mul(a, b) ==
    IF a * b >= 0 THEN (a * b) \div Scale ELSE 0 - ((0 - a * b) \div Scale)
Ratio(i, n) == (i * Scale) \div n


(***************************************************************************)
(* create_cylinder_mesh_data                                               *)
(***************************************************************************)
\* angle = (i / segments) * 2 * np.pi
Angle(i, segments) == (Ratio(i, segments) * 2 * PiFx) \div Scale

\* the two vertices appended for ring i: bottom, then top
RingPositions(i, segments, radius, height_start, height_end) ==
    LET x == Mul(Cos(Angle(i, segments)), radius)
        z == Mul(Sin(Angle(i, segments)), radius)
    IN  << <<x, height_start, z>>, <<x, height_end, z>> >>

\* variant: the normals point at the axis
RingNormalsInward(i, segments) ==
    LET nx == 0 - Cos(Angle(i, segments))
        nz == 0 - Sin(Angle(i, segments))
    IN  << <<nx, 0, nz>>, <<nx, 0, nz>> >>

RingNormals(i, segments) ==
    LET nx == Cos(Angle(i, segments))
        nz == Sin(Angle(i, segments))
    IN  << <<nx, 0, nz>>, <<nx, 0, nz>> >>

\* variant: u wraps back to 0 on the closing ring
RingUVsWrapped(i, segments) ==
    LET u == Ratio(i % segments, segments)
    IN  << <<u, 0>>, <<u, Scale>> >>

RingUVs(i, segments) ==
    LET u == Ratio(i, segments)
    IN  << <<u, 0>>, <<u, Scale>> >>

\* variant: the closing ring is left out
VertexRangeOpen(segments) == 0 .. (segments - 1)

\* the ring numbers of "for i in range(segments + 1)"
VertexRange(segments) == 0 .. segments

\* the quad numbers of "for i in range(segments)"
IndexRange(segments) == 0 .. (segments - 1)

\* variant: the second triangle of a quad is wound the other way
QuadIndicesFlipped(i) ==
    LET base == i * 2
    IN  <<base, base + 1, base + 2, base + 1, base + 2, base + 3>>

\* the six entries appended for quad i
QuadIndices(i) ==
    LET base == i * 2
    IN  <<base, base + 1, base + 2, base + 1, base + 3, base + 2>>

\* a for loop over the numbers lo..hi that extends acc by body[i] each turn
RECURSIVE Loop(_, _, _, _)
Loop(body, i, hi, acc) ==
    IF i > hi THEN acc ELSE Loop(body, i + 1, hi, acc \o body[i])

SetMax(S) == CHOOSE m \in S : \A y \in S : y <= m
SetMin(S) == CHOOSE m \in S : \A y \in S : m <= y

\* np.array(..., dtype=np.uint16) of a Python int
UInt16(v) == v % 65536

create_cylinder_mesh_data(segments, radius, height_start, height_end) ==
    LET rings == VertexRange(segments)
        quads == IndexRange(segments)
        P == [i \in rings |-> RingPositions(i, segments, radius, height_start, height_end)]
        N == [i \in rings |-> RingNormals(i, segments)]
        U == [i \in rings |-> RingUVs(i, segments)]
        Q == [i \in quads |-> QuadIndices(i)]
        lastV == SetMax(rings)
        lastQ == IF quads = {} THEN -1 ELSE SetMax(quads)
        raw == Loop(Q, 0, lastQ, <<>>)
    IN  [positions |-> Loop(P, 0, lastV, <<>>),
         normals   |-> Loop(N, 0, lastV, <<>>),
         uvs       |-> Loop(U, 0, lastV, <<>>),
         indices   |-> [k \in 1 .. Len(raw) |-> UInt16(raw[k])]]

(***************************************************************************)
(* ndarray.tobytes                                                         *)
(***************************************************************************)
Float32Bytes(v) ==
    <<v % 256, (v \div 256) % 256, (v \div 65536) % 256,
      (v \div 16777216) % 256>>

UInt16Bytes(v) == <<v % 256, (v \div 256) % 256>>

\* bytes of a 2-d float32 array with `width` columns, row after row
FloatArrayBytes(rows, width) ==
    [b \in 1 .. (Len(rows) * width * 4) |->
        LET e == (b - 1) \div 4
        IN  Float32Bytes(rows[(e \div width) + 1][(e % width) + 1])[((b - 1) % 4) + 1]]

\* bytes of a 1-d uint16 array
IndexArrayBytes(idx) ==
    [b \in 1 .. (Len(idx) * 2) |->
        UInt16Bytes(idx[((b - 1) \div 2) + 1])[((b - 1) % 2) + 1]]

(***************************************************************************)
(* The glTF document (pygltflib.GLTF2).  Collection indices are 0-based in *)
(* the document and the sequences here are 1-based: entry k of a           *)
(* collection is seq[k + 1].  A missing (None) scale is <<>>.              *)
(***************************************************************************)
ARRAY_BUFFER == 34962
ELEMENT_ARRAY_BUFFER == 34963
FLOAT == 5126
UNSIGNED_SHORT == 5123

At(seq, k) == seq[k + 1]

BufferView(buffer, byteOffset, byteLength, target) ==
    [buffer |-> buffer, byteOffset |-> byteOffset,
     byteLength |-> byteLength, target |-> target]

Accessor(bufferView, componentType, count, type, max, min) ==
    [bufferView |-> bufferView, componentType |-> componentType,
     count |-> count, type |-> type, max |-> max, min |-> min]

Material(name, metallicFactor, roughnessFactor) ==
    [name |-> name, baseColorFactor |-> <<Scale, Scale, Scale, Scale>>,
     metallicFactor |-> metallicFactor, roughnessFactor |-> roughnessFactor]

Primitive(position, normal, texcoord_0, idx, material) ==
    [attributes |-> [POSITION |-> position, NORMAL |-> normal,
                     TEXCOORD_0 |-> texcoord_0],
     indices |-> idx, material |-> material]

Mesh(name, primitives) == [name |-> name, primitives |-> primitives]

Node(mesh, name, scale, children) ==
    [mesh |-> mesh, name |-> name, scale |-> scale, children |-> children]

EmptyDoc ==
    [buffers |-> <<>>, bufferViews |-> <<>>, accessors |-> <<>>,
     materials |-> <<>>, meshes |-> <<>>, nodes |-> <<>>, scenes |-> <<>>,
     blob |-> <<>>, uri_data |-> <<>>]

NoFile == [exists |-> FALSE, doc |-> EmptyDoc]

(***************************************************************************)
(* Input documents the run may meet.                                       *)
(***************************************************************************)
CueScale == <<7, 1009, 7>>
PartScale == <<500, 500, 500>>

\* byte k of the buffer data already in the file
OldByte(k) == (k * 37 + 11) % 256
OldData(len) == [k \in 1 .. len |-> OldByte(k)]

\* node layouts: one root without scale; one root with scale; the root is
\* node 1 and node 0 is its child; no node at all
NodeLayouts == {"plain", "scaled", "child_first", "empty"}

OldNodes(layout) ==
    CASE layout = "plain"  -> <<Node(0, "Cue", <<>>, <<>>)>>
      [] layout = "scaled" -> <<Node(0, "Cue", CueScale, <<>>)>>
      [] layout = "child_first" ->
            <<Node(0, "Part", PartScale, <<>>), Node(-1, "Cue", CueScale, <<0>>)>>
      [] OTHER -> <<>>

OldSceneNodes(layout) ==
    CASE layout = "child_first" -> <<1>>
      [] layout = "empty" -> <<>>
      [] OTHER -> <<0>>

OldDoc(len, hasUri, nOld, nMat, layout) ==
    LET lo(j) == ((j - 1) * len) \div nOld
        hi(j) == (j * len) \div nOld
    IN  [buffers |-> <<[byteLength |-> len, uri |-> hasUri]>>,
         bufferViews |->
            [j \in 1 .. nOld |-> BufferView(0, lo(j), hi(j) - lo(j), ARRAY_BUFFER)],
         accessors |->
            [j \in 1 .. nOld |->
                Accessor(j - 1, FLOAT, (hi(j) - lo(j)) \div 4, "SCALAR", <<>>, <<>>)],
         materials |-> [j \in 1 .. nMat |-> Material("wood", 0, Scale)],
         meshes |->
            [j \in 1 .. nOld |-> Mesh("Cue", <<Primitive(j - 1, -1, -1, -1, -1)>>)],
         nodes |-> OldNodes(layout),
         scenes |-> <<[nodes |-> OldSceneNodes(layout)]>>,
         blob |-> IF hasUri THEN <<>> ELSE OldData(len),
         uri_data |-> IF hasUri THEN OldData(len) ELSE <<>>]

\* a GLB binary chunk is a whole number of 4-byte words; the data behind a
\* buffer uri has any length
InputDocs ==
    {OldDoc(4 * w, FALSE, nOld, nMat, layout) :
        w \in 0 .. MaxExistingWords, nOld \in 0 .. MaxOld, nMat \in {0, 1},
        layout \in NodeLayouts}
    \cup
    {OldDoc(len, TRUE, nOld, nMat, layout) :
        len \in 0 .. (4 * MaxExistingWords), nOld \in 0 .. MaxOld, nMat \in {0, 1},
        layout \in NodeLayouts}

InputFiles == {NoFile} \cup {[exists |-> TRUE, doc |-> d] : d \in InputDocs}

RADIUS == 2150
HEIGHT_START == 0
HEIGHT_END == 365

Params ==
    [segments : 0 .. MaxSegments,
     radius : {RADIUS, Scale},
     heights : {<<HEIGHT_START, HEIGHT_END>>, <<HEIGHT_END, HEIGHT_START>>,
                <<HEIGHT_END, HEIGHT_END>>}]

Init ==
    /\ script = "add_cue_customizable_layer"
    /\ HostIdle
    /\ pc = "load"
    /\ params \in Params
    /\ input_file \in InputFiles
    /\ output_file = NoFile
    /\ gltf = EmptyDoc
    /\ existing_data = <<>>
    /\ positions = <<>> /\ normals = <<>> /\ uvs = <<>> /\ indices = <<>>
    /\ positions_bytes = <<>> /\ normals_bytes = <<>>
    /\ uvs_bytes = <<>> /\ indices_bytes = <<>>
    /\ positions_offset = -1 /\ normals_offset = -1
    /\ uvs_offset = -1 /\ indices_offset = -1
    /\ new_buffer_data = <<>>
    /\ positions_bv_idx = -1 /\ normals_bv_idx = -1
    /\ uvs_bv_idx = -1 /\ indices_bv_idx = -1
    /\ positions_acc_idx = -1 /\ normals_acc_idx = -1
    /\ uvs_acc_idx = -1 /\ indices_acc_idx = -1
    /\ material_idx = -1 /\ mesh_idx = -1 /\ node_idx = -1

meshVars == <<positions, normals, uvs, indices,
              positions_bytes, normals_bytes, uvs_bytes, indices_bytes>>
offsetVars == <<positions_offset, normals_offset, uvs_offset, indices_offset,
                new_buffer_data>>
bvVars == <<positions_bv_idx, normals_bv_idx, uvs_bv_idx, indices_bv_idx>>
accVars == <<positions_acc_idx, normals_acc_idx, uvs_acc_idx, indices_acc_idx>>
fileVars == <<params, input_file, output_file>>

(***************************************************************************)
(* main()                                                                  *)
(***************************************************************************)
\* GLTF2().load(INPUT_FILE) and the bytes of buffer 0; a missing file raises
Load ==
    /\ pc = "load"
    /\ IF ~input_file.exists
       THEN /\ pc' = "aborted"
            /\ UNCHANGED <<gltf, existing_data>>
       ELSE /\ gltf' = input_file.doc
            /\ existing_data' =
                  IF At(input_file.doc.buffers, 0).uri
                  THEN input_file.doc.uri_data
                  ELSE input_file.doc.blob
            /\ pc' = "create_mesh"
    /\ UNCHANGED <<hostVars, fileVars, meshVars, offsetVars, bvVars, accVars,
                   material_idx, mesh_idx, node_idx>>

\* the call of create_cylinder_mesh_data and the four tobytes(); with
\* segments = 0 the division i / segments raises
CreateMesh ==
    /\ pc = "create_mesh"
    /\ IF params.segments = 0
       THEN /\ pc' = "aborted"
            /\ UNCHANGED meshVars
       ELSE /\ \E m \in {create_cylinder_mesh_data(params.segments, params.radius,
                                   params.heights[1], params.heights[2])} :
                /\ positions' = m.positions
                /\ normals' = m.normals
                /\ uvs' = m.uvs
                /\ indices' = m.indices
            /\ positions_bytes' = FloatArrayBytes(positions', 3)
            /\ normals_bytes' = FloatArrayBytes(normals', 3)
            /\ uvs_bytes' = FloatArrayBytes(uvs', 2)
            /\ indices_bytes' = IndexArrayBytes(indices')
            /\ pc' = "build_buffer"
    /\ UNCHANGED <<hostVars, fileVars, gltf, existing_data, offsetVars, bvVars, accVars,
                   material_idx, mesh_idx, node_idx>>

pad_to_4(length) == (4 - (length % 4)) % 4

Zeros(k) == [j \in 1 .. k |-> 0]

\* variant: the new arrays are laid out from the start of the buffer
NewDataStartZero(data) == 0

\* new_data_start = len(existing_data)
NewDataStart(data) == Len(data)

\* the offset of the array that follows one of `length` bytes at `offset`
NextOffset(offset, length) == offset + length + pad_to_4(length)

\* a new array followed by its padding
Padded(bytes) == bytes \o Zeros(pad_to_4(Len(bytes)))

\* variant: the index bytes are never appended
NewBufferDataNoIndices(data, pb, nb, ub, ib) ==
    data \o Padded(pb) \o Padded(nb) \o Padded(ub)

\* bytearray(existing_data) extended by the four arrays and their padding
NewBufferData(data, pb, nb, ub, ib) ==
    data \o Padded(pb) \o Padded(nb) \o Padded(ub) \o Padded(ib)

\* offsets, the new buffer data and the byteLength of buffer 0
BuildBuffer ==
    /\ pc = "build_buffer"
    /\ positions_offset' = NewDataStart(existing_data)
    /\ normals_offset' = NextOffset(positions_offset', Len(positions_bytes))
    /\ uvs_offset' = NextOffset(normals_offset', Len(normals_bytes))
    /\ indices_offset' = NextOffset(uvs_offset', Len(uvs_bytes))
    /\ new_buffer_data' = NewBufferData(existing_data, positions_bytes,
                                        normals_bytes, uvs_bytes, indices_bytes)
    /\ gltf' = [gltf EXCEPT !.buffers[1].byteLength = Len(new_buffer_data')]
    /\ pc' = "buffer_views"
    /\ UNCHANGED <<hostVars, fileVars, existing_data, meshVars, bvVars, accVars,
                   material_idx, mesh_idx, node_idx>>

\* the four bufferViews.append
AddBufferViews ==
    /\ pc = "buffer_views"
    /\ LET bv0 == gltf.bufferViews
           bv1 == Append(bv0, BufferView(0, positions_offset,
                                         Len(positions_bytes), ARRAY_BUFFER))
           bv2 == Append(bv1, BufferView(0, normals_offset,
                                         Len(normals_bytes), ARRAY_BUFFER))
           bv3 == Append(bv2, BufferView(0, uvs_offset,
                                         Len(uvs_bytes), ARRAY_BUFFER))
           bv4 == Append(bv3, BufferView(0, indices_offset,
                                         Len(indices_bytes), ELEMENT_ARRAY_BUFFER))
       IN  /\ positions_bv_idx' = Len(bv0)
           /\ normals_bv_idx' = Len(bv1)
           /\ uvs_bv_idx' = Len(bv2)
           /\ indices_bv_idx' = Len(bv3)
           /\ gltf' = [gltf EXCEPT !.bufferViews = bv4]
    /\ pc' = "accessors"
    /\ UNCHANGED <<hostVars, fileVars, existing_data, meshVars, offsetVars, accVars,
                   material_idx, mesh_idx, node_idx>>

\* variant: the minimum is taken over the bottom vertex of each ring only
AxisMinOfBottom(rows) ==
    [c \in 1 .. 3 |-> SetMin({rows[k][c] : k \in {j \in 1 .. Len(rows) : j % 2 = 1}})]

\* positions.max(axis=0), positions.min(axis=0)
AxisMax(rows) == [c \in 1 .. 3 |-> SetMax({rows[k][c] : k \in 1 .. Len(rows)})]
AxisMin(rows) == [c \in 1 .. 3 |-> SetMin({rows[k][c] : k \in 1 .. Len(rows)})]

\* variant: the index accessor counts triangles, not index entries
IndexCountTriangles(idx) == Len(idx) \div 3

\* vertex_count = len(positions), index_count = len(indices)
VertexCount(rows) == Len(rows)
IndexCount(idx) == Len(idx)

\* the four accessors.append
AddAccessors ==
    /\ pc = "accessors"
    /\ LET vertex_count == VertexCount(positions)
           index_count == IndexCount(indices)
           a0 == gltf.accessors
           a1 == Append(a0, Accessor(positions_bv_idx, FLOAT, vertex_count, "VEC3",
                                     AxisMax(positions), AxisMin(positions)))
           a2 == Append(a1, Accessor(normals_bv_idx, FLOAT, vertex_count, "VEC3",
                                     <<>>, <<>>))
           a3 == Append(a2, Accessor(uvs_bv_idx, FLOAT, vertex_count, "VEC2",
                                     <<>>, <<>>))
           a4 == Append(a3, Accessor(indices_bv_idx, UNSIGNED_SHORT, index_count,
                                     "SCALAR", <<>>, <<>>))
       IN  /\ positions_acc_idx' = Len(a0)
           /\ normals_acc_idx' = Len(a1)
           /\ uvs_acc_idx' = Len(a2)
           /\ indices_acc_idx' = Len(a3)
           /\ gltf' = [gltf EXCEPT !.accessors = a4]
    /\ pc' = "material"
    /\ UNCHANGED <<hostVars, fileVars, existing_data, meshVars, offsetVars, bvVars,
                   material_idx, mesh_idx, node_idx>>

\* variant: the index of the last existing material
MaterialIndexLast(materials) == IF Len(materials) > 0 THEN Len(materials) - 1 ELSE 0

\* material_idx = len(gltf.materials) if gltf.materials else 0
MaterialIndex(materials) == IF Len(materials) > 0 THEN Len(materials) ELSE 0

\* the material named "outside"
AddMaterial ==
    /\ pc = "material"
    /\ material_idx' = MaterialIndex(gltf.materials)
    /\ gltf' = [gltf EXCEPT !.materials =
                   Append(gltf.materials, Material("outside", 0, Scale \div 2))]
    /\ pc' = "mesh"
    /\ UNCHANGED <<hostVars, fileVars, existing_data, meshVars, offsetVars, bvVars, accVars,
                   mesh_idx, node_idx>>

\* the primitive and the mesh "CustomizableLayer"
AddMesh ==
    /\ pc = "mesh"
    /\ LET primitive == Primitive(positions_acc_idx, normals_acc_idx, uvs_acc_idx,
                                  indices_acc_idx, material_idx)
       IN  /\ mesh_idx' = Len(gltf.meshes)
           /\ gltf' = [gltf EXCEPT !.meshes =
                          Append(gltf.meshes, Mesh("CustomizableLayer", <<primitive>>))]
    /\ pc' = "node"
    /\ UNCHANGED <<hostVars, fileVars, existing_data, meshVars, offsetVars, bvVars, accVars,
                   material_idx, node_idx>>

\* existing_node = gltf.nodes[0]; its scale, or [1, 1, 1]
NodeScale(nodes) ==
    IF Len(At(nodes, 0).scale) > 0 THEN At(nodes, 0).scale ELSE <<Scale, Scale, Scale>>

\* the node "CustomizableLayerNode" and its entry in scenes[0].nodes; with
\* no node in the document gltf.nodes[0] raises
AddNode ==
    /\ pc = "node"
    /\ IF Len(gltf.nodes) = 0
       THEN /\ pc' = "aborted"
            /\ UNCHANGED <<gltf, node_idx>>
       ELSE LET idx == Len(gltf.nodes)
                node == Node(mesh_idx, "CustomizableLayerNode",
                             NodeScale(gltf.nodes), <<>>)
            IN  /\ node_idx' = idx
                /\ gltf' = [gltf EXCEPT
                              !.nodes = Append(@, node),
                              !.scenes[1].nodes = Append(@, idx)]
                /\ pc' = "save"
    /\ UNCHANGED <<hostVars, fileVars, existing_data, meshVars, offsetVars, bvVars, accVars,
                   material_idx, mesh_idx>>

\* gltf.set_binary_blob and gltf.save(OUTPUT_FILE)
Save ==
    /\ pc = "save"
    /\ gltf' = [gltf EXCEPT !.blob = new_buffer_data]
    /\ output_file' = [exists |-> TRUE, doc |-> gltf']
    /\ pc' = "done"
    /\ UNCHANGED <<hostVars, params, input_file, existing_data, meshVars, offsetVars, bvVars,
                   accVars, material_idx, mesh_idx, node_idx>>

Next ==
    \/ Load
    \/ CreateMesh
    \/ BuildBuffer
    \/ AddBufferViews
    \/ AddAccessors
    \/ AddMaterial
    \/ AddMesh
    \/ AddNode
    \/ Save

Spec == Init /\ [][Next]_vars

(***************************************************************************)
(* Positions of main() at which a step has been taken.                     *)
(***************************************************************************)
MeshCreated ==
    pc \in {"build_buffer", "buffer_views", "accessors", "material", "mesh",
            "node", "save", "done"}
BufferBuilt ==
    pc \in {"buffer_views", "accessors", "material", "mesh", "node", "save", "done"}
ViewsAdded == pc \in {"accessors", "material", "mesh", "node", "save", "done"}
AccessorsAdded == pc \in {"material", "mesh", "node", "save", "done"}
MaterialAdded == pc \in {"mesh", "node", "save", "done"}
MeshAdded == pc \in {"node", "save", "done"}
NodeAdded == pc \in {"save", "done"}
Saved == pc = "done"

n_seg == params.segments
height_start == params.heights[1]
height_end == params.heights[2]

(***************************************************************************)
(* C1.  For every segment count n >= 3 the generated shell has exactly     *)
(* 2(n+1) vertices (positions, normals and UVs all of that length, 3, 3    *)
(* and 2 components each) and exactly 6n index entries: for each of the n  *)
(* quads, two triangles over the four vertices of that quad.               *)
(***************************************************************************)
C1_VertexAndIndexCount ==
    (MeshCreated /\ n_seg >= 3) =>
        /\ Len(positions) = 2 * (n_seg + 1)
        /\ Len(normals) = 2 * (n_seg + 1)
        /\ Len(uvs) = 2 * (n_seg + 1)
        /\ \A k \in 1 .. Len(positions) : Len(positions[k]) = 3
        /\ \A k \in 1 .. Len(normals) : Len(normals[k]) = 3
        /\ \A k \in 1 .. Len(uvs) : Len(uvs[k]) = 2
        /\ Len(indices) = 6 * n_seg
        /\ \A q \in 0 .. (n_seg - 1) :
              /\ {indices[6 * q + j] : j \in 1 .. 3} = {2 * q, 2 * q + 1, 2 * q + 2}
              /\ {indices[6 * q + j] : j \in 4 .. 6} = {2 * q + 1, 2 * q + 2, 2 * q + 3}

C1_Witness ==
    /\ MeshCreated
    /\ n_seg = MaxSegments
    /\ Len(positions) = 2 * (MaxSegments + 1)
    /\ Len(indices) = 6 * MaxSegments

(***************************************************************************)
(* C2.  For n >= 3 and every ring i in 0..n, both vertices of ring i       *)
(* (entries 2i and 2i+1) have u = i/n (to the resolution of the            *)
(* arithmetic), v = 0 at the bottom vertex and v = 1 at the top vertex; u  *)
(* is strictly increasing in i, ring 0 has u = 0, ring n has u = 1, and    *)
(* ring n has the same position as ring 0.                                 *)
(***************************************************************************)
C2_SeamUV ==
    (MeshCreated /\ n_seg >= 3) =>
        /\ \A i \in 0 .. n_seg :
              LET bottom == At(uvs, 2 * i)
                  top == At(uvs, 2 * i + 1)
              IN  /\ bottom[1] = top[1]
                  /\ bottom[1] * n_seg <= i * Scale
                  /\ bottom[1] * n_seg > i * Scale - n_seg
                  /\ bottom[2] = 0
                  /\ top[2] = Scale
        /\ \A i \in 0 .. (n_seg - 1) : At(uvs, 2 * i)[1] < At(uvs, 2 * (i + 1))[1]
        /\ At(uvs, 0)[1] = 0
        /\ At(uvs, 2 * n_seg)[1] = Scale
        /\ At(positions, 2 * n_seg) = At(positions, 0)
        /\ At(positions, 2 * n_seg + 1) = At(positions, 1)

C2_Witness ==
    /\ MeshCreated
    /\ n_seg >= 3
    /\ At(uvs, 2 * n_seg + 1) = <<Scale, Scale>>
    /\ At(uvs, 1) = <<0, Scale>>
    /\ At(positions, 2 * n_seg + 1) = At(positions, 1)

(***************************************************************************)
(* C10.  Winding.  For n >= 3 no directed edge is used by two triangles,   *)
(* so every edge two triangles share (the diagonal of a quad, the ring     *)
(* edge between neighbouring quads) is traversed in opposite directions;   *)
(* and when height_end > height_start the face normal of every triangle,   *)
(* (p1 - p0) x (p2 - p0), has a positive component along the outward       *)
(* normal of each of its three vertices.                                   *)
(***************************************************************************)
Triangle(t) == <<indices[3 * t - 2], indices[3 * t - 1], indices[3 * t]>>
DirectedEdges(tri) == {<<tri[1], tri[2]>>, <<tri[2], tri[3]>>, <<tri[3], tri[1]>>}
Reverse(e) == <<e[2], e[1]>>
Triangles == 1 .. (Len(indices) \div 3)

Sub(p, q) == <<p[1] - q[1], p[2] - q[2], p[3] - q[3]>>
Cross(a, b) ==
    <<a[2] * b[3] - a[3] * b[2], a[3] * b[1] - a[1] * b[3], a[1] * b[2] - a[2] * b[1]>>
Dot(a, b) == Mul(a[1], b[1]) + Mul(a[2], b[2]) + Mul(a[3], b[3])

FaceNormal(tri) ==
    Cross(Sub(At(positions, tri[2]), At(positions, tri[1])),
          Sub(At(positions, tri[3]), At(positions, tri[1])))

SharedEdge(t1, t2) ==
    \E e \in DirectedEdges(Triangle(t1)) :
        e \in DirectedEdges(Triangle(t2)) \/ Reverse(e) \in DirectedEdges(Triangle(t2))

C10_ConsistentWinding ==
    (MeshCreated /\ n_seg >= 3) =>
        /\ \A t1, t2 \in Triangles :
              t1 # t2 =>
                 DirectedEdges(Triangle(t1)) \cap DirectedEdges(Triangle(t2)) = {}
        /\ \A q \in 0 .. (n_seg - 1) :
              <<2 * q + 1, 2 * q + 2>> \in DirectedEdges(Triangle(2 * q + 1))
              /\ <<2 * q + 2, 2 * q + 1>> \in DirectedEdges(Triangle(2 * q + 2))
        /\ \A q \in 0 .. (n_seg - 2) :
              <<2 * q + 3, 2 * q + 2>> \in DirectedEdges(Triangle(2 * q + 2))
              /\ <<2 * q + 2, 2 * q + 3>> \in DirectedEdges(Triangle(2 * q + 3))
        /\ height_end > height_start =>
              \A t \in Triangles :
                 \A j \in 1 .. 3 :
                    Dot(FaceNormal(Triangle(t)), At(normals, Triangle(t)[j])) > 0

C10_Witness ==
    /\ MeshCreated
    /\ n_seg >= 3
    /\ height_end > height_start
    /\ SharedEdge(1, 2)
    /\ SharedEdge(2, 3)
    /\ Dot(FaceNormal(Triangle(2 * n_seg)), At(normals, Triangle(2 * n_seg)[1])) > 0

(***************************************************************************)
(* The document before the run, and the entries the run added.             *)
(***************************************************************************)
old == input_file.doc

NewView(idx) == At(gltf.bufferViews, idx)
NewAccessor(idx) == At(gltf.accessors, idx)
NewViewIdx == <<positions_bv_idx, normals_bv_idx, uvs_bv_idx, indices_bv_idx>>
NewAccIdx == <<positions_acc_idx, normals_acc_idx, uvs_acc_idx, indices_acc_idx>>
NewBytes == <<positions_bytes, normals_bytes, uvs_bytes, indices_bytes>>

\* the padding that brings a length to the next multiple of 4
PadOf(length) == IF length % 4 = 0 THEN 0 ELSE 4 - (length % 4)

(***************************************************************************)
(* C3.  For every byte length of the existing buffer data and every        *)
(* segment count, the byteOffset of each of the four new buffer views is a *)
(* multiple of 4.                                                          *)
(***************************************************************************)
C3_OffsetsAligned ==
    ViewsAdded => \A j \in 1 .. 4 : NewView(NewViewIdx[j]).byteOffset % 4 = 0

(***************************************************************************)
(* C4.  After appension the new blob and the byteLength of buffer 0 both   *)
(* have the length of the existing data plus, for each of the four arrays, *)
(* its byte length plus its padding to a multiple of 4; the first          *)
(* len(existing_data) bytes of the new blob are the existing data.         *)
(***************************************************************************)
ExpectedLength ==
    Len(existing_data)
    + Len(positions_bytes) + PadOf(Len(positions_bytes))
    + Len(normals_bytes) + PadOf(Len(normals_bytes))
    + Len(uvs_bytes) + PadOf(Len(uvs_bytes))
    + Len(indices_bytes) + PadOf(Len(indices_bytes))

InputData == IF At(old.buffers, 0).uri THEN old.uri_data ELSE old.blob

C4_BlobLength ==
    /\ BufferBuilt =>
          /\ Len(new_buffer_data) = ExpectedLength
          /\ At(gltf.buffers, 0).byteLength = ExpectedLength
          /\ existing_data = InputData
          /\ \A k \in 1 .. Len(existing_data) : new_buffer_data[k] = existing_data[k]
    /\ Saved =>
          /\ Len(gltf.blob) = ExpectedLength
          /\ \A k \in 1 .. Len(InputData) : gltf.blob[k] = InputData[k]
          /\ output_file.exists
          /\ output_file.doc.blob = gltf.blob
          /\ At(output_file.doc.buffers, 0).byteLength = ExpectedLength

C4_Witness ==
    /\ Saved
    /\ Len(existing_data) > 0
    /\ Len(gltf.blob) > Len(existing_data) + Len(positions_bytes)
    /\ Len(gltf.blob) = At(gltf.buffers, 0).byteLength

(***************************************************************************)
(* C5.  The min and max of the new position accessor are, for each of the  *)
(* three axes, the least and the greatest value of that axis over the      *)
(* generated positions, for every segment count, radius and height         *)
(* interval (height_start > height_end included).                          *)
(***************************************************************************)
C5_PositionBounds ==
    AccessorsAdded =>
        LET acc == NewAccessor(positions_acc_idx)
        IN  /\ Len(acc.min) = 3
            /\ Len(acc.max) = 3
            /\ \A c \in 1 .. 3 :
                  /\ \A k \in 1 .. Len(positions) :
                        acc.min[c] <= positions[k][c] /\ positions[k][c] <= acc.max[c]
                  /\ \E k \in 1 .. Len(positions) : positions[k][c] = acc.min[c]
                  /\ \E k \in 1 .. Len(positions) : positions[k][c] = acc.max[c]

C5_Witness ==
    /\ Saved
    /\ height_start > height_end
    /\ NewAccessor(positions_acc_idx).min[2] = height_end
    /\ NewAccessor(positions_acc_idx).max[2] = height_start
    /\ NewAccessor(positions_acc_idx).min[1] < 0
    /\ NewAccessor(positions_acc_idx).max[1] = params.radius

(***************************************************************************)
(* C6.  Appension is append-only: each new bufferView, accessor, material, *)
(* mesh and node sits at the index that was the length of its collection   *)
(* just before it was appended, and every entry that was in bufferViews,   *)
(* accessors, materials, meshes and nodes before the run keeps its index   *)
(* and content (with no material in the input, the new material has index  *)
(* 0).                                                                     *)
(***************************************************************************)
KeepsPrefix(now, before) ==
    /\ Len(now) >= Len(before)
    /\ \A k \in 1 .. Len(before) : now[k] = before[k]

C6_AppendOnly ==
    /\ ViewsAdded =>
          /\ \A j \in 1 .. 4 :
                /\ NewViewIdx[j] = Len(old.bufferViews) + j - 1
                /\ NewView(NewViewIdx[j]).byteLength = Len(NewBytes[j])
          /\ Len(gltf.bufferViews) = Len(old.bufferViews) + 4
          /\ KeepsPrefix(gltf.bufferViews, old.bufferViews)
    /\ AccessorsAdded =>
          /\ \A j \in 1 .. 4 :
                /\ NewAccIdx[j] = Len(old.accessors) + j - 1
                /\ NewAccessor(NewAccIdx[j]).bufferView = NewViewIdx[j]
          /\ Len(gltf.accessors) = Len(old.accessors) + 4
          /\ KeepsPrefix(gltf.accessors, old.accessors)
    /\ MaterialAdded =>
          /\ material_idx = Len(old.materials)
          /\ Len(gltf.materials) = Len(old.materials) + 1
          /\ At(gltf.materials, material_idx).name = "outside"
          /\ KeepsPrefix(gltf.materials, old.materials)
    /\ MeshAdded =>
          /\ mesh_idx = Len(old.meshes)
          /\ Len(gltf.meshes) = Len(old.meshes) + 1
          /\ At(gltf.meshes, mesh_idx).name = "CustomizableLayer"
          /\ At(gltf.meshes, mesh_idx).primitives[1].material = material_idx
          /\ KeepsPrefix(gltf.meshes, old.meshes)
    /\ NodeAdded =>
          /\ node_idx = Len(old.nodes)
          /\ Len(gltf.nodes) = Len(old.nodes) + 1
          /\ At(gltf.nodes, node_idx).name = "CustomizableLayerNode"
          /\ KeepsPrefix(gltf.nodes, old.nodes)
    /\ Saved =>
          /\ output_file.doc.bufferViews = gltf.bufferViews
          /\ output_file.doc.accessors = gltf.accessors
          /\ output_file.doc.materials = gltf.materials
          /\ output_file.doc.meshes = gltf.meshes
          /\ output_file.doc.nodes = gltf.nodes

C6_Witness ==
    /\ Saved
    /\ Len(old.materials) = 0
    /\ material_idx = 0
    /\ Len(old.bufferViews) = MaxOld
    /\ positions_bv_idx = MaxOld
    /\ Len(old.nodes) = 2
    /\ node_idx = 2

C6_WitnessWithMaterial ==
    /\ Saved
    /\ Len(old.materials) = 1
    /\ material_idx = 1
    /\ At(gltf.materials, 0).name = "wood"

(***************************************************************************)
(* C7.  After appension the node list of the scene has gained exactly one  *)
(* node, placed last, which references the new mesh and carries the scale  *)
(* of the existing root node of that scene (or [1,1,1] when that node has  *)
(* no scale); the nodes listed before are unchanged and in the same order. *)
(***************************************************************************)
OldSceneRoot == At(old.nodes, At(old.scenes, 0).nodes[1])

C7_SceneNodeInheritsRootScale ==
    Saved =>
        LET now == At(gltf.scenes, 0).nodes
            was == At(old.scenes, 0).nodes
            node == At(gltf.nodes, now[Len(now)])
        IN  /\ Len(now) = Len(was) + 1
            /\ \A k \in 1 .. Len(was) : now[k] = was[k]
            /\ now[Len(now)] = node_idx
            /\ node.mesh = mesh_idx
            /\ node.scale = IF OldSceneRoot.scale # <<>> THEN OldSceneRoot.scale
                            ELSE <<Scale, Scale, Scale>>

(***************************************************************************)
(* C8.  After appension the byte range [byteOffset, byteOffset+byteLength) *)
(* of each new buffer view is exactly where that array's bytes lie in the  *)
(* new blob; the four ranges are pairwise disjoint, start at or after the  *)
(* end of the existing data (so they meet no buffer view that was there    *)
(* before), and end at or before the declared byteLength of the buffer.    *)
(***************************************************************************)
RangeOf(view) == view.byteOffset .. (view.byteOffset + view.byteLength - 1)

C8_ViewRanges ==
    ViewsAdded =>
        /\ \A j \in 1 .. 4 :
              LET view == NewView(NewViewIdx[j])
              IN  /\ view.buffer = 0
                  /\ view.byteLength = Len(NewBytes[j])
                  /\ view.byteOffset >= Len(existing_data)
                  /\ view.byteOffset + view.byteLength <= At(gltf.buffers, 0).byteLength
                  /\ view.byteOffset + view.byteLength <= Len(new_buffer_data)
                  /\ \A b \in 1 .. view.byteLength :
                        new_buffer_data[view.byteOffset + b] = NewBytes[j][b]
                  /\ \A k \in 1 .. Len(old.bufferViews) :
                        RangeOf(view) \cap RangeOf(old.bufferViews[k]) = {}
        /\ \A i, j \in 1 .. 4 :
              i # j => RangeOf(NewView(NewViewIdx[i])) \cap RangeOf(NewView(NewViewIdx[j])) = {}
        /\ Saved =>
              \A j \in 1 .. 4 :
                 \A b \in 1 .. Len(NewBytes[j]) :
                    gltf.blob[NewView(NewViewIdx[j]).byteOffset + b] = NewBytes[j][b]

C8_Witness ==
    /\ Saved
    /\ Len(existing_data) > 0
    /\ Len(old.bufferViews) > 0
    /\ RangeOf(old.bufferViews[1]) # {}
    /\ NewView(positions_bv_idx).byteOffset = Len(existing_data)
    /\ NewView(indices_bv_idx).byteOffset + NewView(indices_bv_idx).byteLength
          = At(gltf.buffers, 0).byteLength

(***************************************************************************)
(* C9.  Each of the four new accessors references the buffer view holding  *)
(* its own array, and its count times its element size (12 for VEC3 float, *)
(* 8 for VEC2 float, 2 for SCALAR unsigned short) is that view's           *)
(* byteLength; the position, normal and UV accessors have count 2(n+1),    *)
(* the index accessor has count 6n, and the new primitive's POSITION,      *)
(* NORMAL, TEXCOORD_0 and indices are exactly these accessors.             *)
(***************************************************************************)
ElementSize(acc) ==
    CASE acc.type = "VEC3" /\ acc.componentType = FLOAT -> 12
      [] acc.type = "VEC2" /\ acc.componentType = FLOAT -> 8
      [] acc.type = "SCALAR" /\ acc.componentType = UNSIGNED_SHORT -> 2
      [] OTHER -> 0

C9_AccessorsConsistent ==
    /\ AccessorsAdded =>
          /\ \A j \in 1 .. 4 :
                LET acc == NewAccessor(NewAccIdx[j])
                IN  /\ acc.bufferView = NewViewIdx[j]
                    /\ NewView(acc.bufferView).byteLength = Len(NewBytes[j])
                    /\ acc.count * ElementSize(acc) = NewView(acc.bufferView).byteLength
          /\ NewAccessor(positions_acc_idx).type = "VEC3"
          /\ NewAccessor(normals_acc_idx).type = "VEC3"
          /\ NewAccessor(uvs_acc_idx).type = "VEC2"
          /\ NewAccessor(indices_acc_idx).type = "SCALAR"
          /\ NewAccessor(indices_acc_idx).componentType = UNSIGNED_SHORT
          /\ NewAccessor(positions_acc_idx).count = 2 * (n_seg + 1)
          /\ NewAccessor(normals_acc_idx).count = 2 * (n_seg + 1)
          /\ NewAccessor(uvs_acc_idx).count = 2 * (n_seg + 1)
          /\ NewAccessor(indices_acc_idx).count = 6 * n_seg
    /\ MeshAdded =>
          LET prim == At(gltf.meshes, mesh_idx).primitives[1]
          IN  /\ Len(At(gltf.meshes, mesh_idx).primitives) = 1
              /\ prim.attributes.POSITION = positions_acc_idx
              /\ prim.attributes.NORMAL = normals_acc_idx
              /\ prim.attributes.TEXCOORD_0 = uvs_acc_idx
              /\ prim.indices = indices_acc_idx

C9_Witness ==
    /\ Saved
    /\ n_seg >= 3
    /\ Len(old.accessors) > 0
    /\ NewAccessor(indices_acc_idx).count * 2 = NewView(indices_bv_idx).byteLength
    /\ At(output_file.doc.meshes, mesh_idx).primitives[1].indices = indices_acc_idx

(***************************************************************************)
(* C11.  Both vertices of ring i of the shell get the same normal          *)
(* (cos a_i, 0, sin a_i) with a_i = 2 pi i / n: its height component is    *)
(* exactly 0, and for a radius > 0 the x and z of both positions of the    *)
(* ring are the radius times the x and z of the normal, so the normal      *)
(* points outward along the radial direction of the position.              *)
(***************************************************************************)
C11_RadialNormals ==
    MeshCreated =>
        \A i \in 0 .. n_seg :
            LET nb == normals[2 * i + 1]
                nt == normals[2 * i + 2]
                pb == positions[2 * i + 1]
                pt == positions[2 * i + 2]
            IN  /\ nb = nt
                /\ nb[2] = 0
                /\ nb[1] = Cos(Angle(i, n_seg))
                /\ nb[3] = Sin(Angle(i, n_seg))
                /\ params.radius > 0 =>
                      /\ pb[1] = Mul(nb[1], params.radius)
                      /\ pb[3] = Mul(nb[3], params.radius)
                      /\ pt[1] = pb[1] /\ pt[3] = pb[3]
                      /\ pb[1] * nb[1] + pb[3] * nb[3] > 0

\* a shell of at least three segments whose ring 1 leaves both axes
C11_Witness ==
    /\ MeshCreated
    /\ n_seg >= 3
    /\ params.radius > 0
    /\ normals[3][1] # 0 /\ normals[3][3] # 0
    /\ normals[3] = normals[4]

(***************************************************************************)
(* Scripts that run inside Blender.  Blender is the host: bpy.data and     *)
(* bpy.context are the record `scene`, and an operator of bpy.ops is       *)
(* modelled by its documented effect on that record.  An object carries    *)
(* its mesh data (vertices in local coordinates, faces as loops of vertex  *)
(* numbers with the face normal and one UV per loop; uv_layer tells        *)
(* whether the mesh has a UV layer), its material slots and its modifier   *)
(* stack.  `active` is the     *)
(* number of the active object in `objects`, 0 for None.                   *)
(***************************************************************************)
layerVars == <<pc, params, input_file, output_file, gltf, existing_data,
               meshVars, offsetVars, bvVars, accVars,
               material_idx, mesh_idx, node_idx>>

\* add_cue_customizable_layer.py does not run
LayerIdle ==
    /\ pc = "none"
    /\ params = <<>>
    /\ input_file = NoFile
    /\ output_file = NoFile
    /\ gltf = EmptyDoc
    /\ existing_data = <<>>
    /\ positions = <<>> /\ normals = <<>> /\ uvs = <<>> /\ indices = <<>>
    /\ positions_bytes = <<>> /\ normals_bytes = <<>>
    /\ uvs_bytes = <<>> /\ indices_bytes = <<>>
    /\ positions_offset = -1 /\ normals_offset = -1
    /\ uvs_offset = -1 /\ indices_offset = -1
    /\ new_buffer_data = <<>>
    /\ positions_bv_idx = -1 /\ normals_bv_idx = -1
    /\ uvs_bv_idx = -1 /\ indices_bv_idx = -1
    /\ positions_acc_idx = -1 /\ normals_acc_idx = -1
    /\ uvs_acc_idx = -1 /\ indices_acc_idx = -1
    /\ material_idx = -1 /\ mesh_idx = -1 /\ node_idx = -1

\* most objects a scene or a file holds before a script runs
MaxObjects == 2

Object(name, type) ==
    [name |-> name, type |-> type, selected |-> FALSE, smooth |-> FALSE,
     location |-> <<0, 0, 0>>, verts |-> <<>>, faces |-> <<>>,
     uv_layer |-> FALSE, materials |-> <<>>, modifiers |-> <<>>]

\* a face: the vertex numbers of its loops, its normal, the UV of each loop
Face(loops, normal, uv) == [loops |-> loops, normal |-> normal, uv |-> uv]

Scene(objects, active) ==
    [objects |-> objects, active |-> active, mode |-> "OBJECT",
     editing |-> {}, materials |-> <<>>]

\* sequences over S of length 0 .. n
SeqUpTo(S, n) == UNION {[1 .. k -> S] : k \in 0 .. n}

Select(objs, P) == [k \in 1 .. Len(objs) |-> [objs[k] EXCEPT !.selected = P[k]]]
IsMesh(o) == o.type = "MESH"

(***************************************************************************)
(* smooth_cue.py                                                           *)
(***************************************************************************)
USE_SUBDIVISION == FALSE

\* what a GLB can import as: a plain mesh, a skinned mesh (it arrives with
\* an Armature modifier), or an object that is not a mesh
ImportedKinds == {"mesh", "skinned", "empty"}
Imported(kind, k) ==
    [Object(<<"imported", k>>, IF kind = "empty" THEN "EMPTY" ELSE "MESH")
        EXCEPT !.selected = TRUE,
               !.modifiers = IF kind = "skinned" THEN <<"Armature">> ELSE <<>>]

\* INPUT_PATH on disk
SmoothInputs ==
    {[exists |-> FALSE, objects |-> <<>>]} \cup
    {[exists |-> TRUE, objects |-> [k \in DOMAIN kinds |-> Imported(kinds[k], k)]] :
        kinds \in SeqUpTo(ImportedKinds, MaxObjects)}

\* the scene Blender starts the script with
StartScenes ==
    {Scene(<<>>, 0), Scene(<<Object(<<"Cube", 1>>, "MESH")>>, 1)}

SmoothInit ==
    /\ script = "smooth_cue"
    /\ LayerIdle
    /\ bpc = "clear_scene"
    /\ scene \in StartScenes
    /\ loc = [i |-> 0, j |-> 0, stack |-> <<>>, attempts |-> <<>>,
              warnings |-> <<>>, imports |-> 0]
    /\ \E inp \in SmoothInputs :
          files = [input |-> inp, output |-> [exists |-> FALSE, objects |-> <<>>]]

\* clear_scene(): every object is selected and deleted, orphan data removed
ClearScene ==
    /\ script = "smooth_cue"
    /\ bpc = "clear_scene"
    /\ scene' = [scene EXCEPT !.objects = <<>>, !.active = 0, !.materials = <<>>]
    /\ bpc' = "import"
    /\ UNCHANGED <<layerVars, script, loc, files>>

\* variant: a missing file imports nothing and the script goes on
ImportGlbLenient ==
    /\ script = "smooth_cue"
    /\ bpc = "import"
    /\ scene' = [scene EXCEPT !.objects = scene.objects \o files.input.objects]
    /\ loc' = [loc EXCEPT !.imports = loc.imports + 1, !.i = 1]
    /\ bpc' = "shade"
    /\ UNCHANGED <<layerVars, script, files>>

\* import_glb(INPUT_PATH): the import operator raises on a missing file and
\* nothing in main() catches it
ImportGlb ==
    /\ script = "smooth_cue"
    /\ bpc = "import"
    /\ IF ~files.input.exists
       THEN /\ bpc' = "aborted"
            /\ loc' = [loc EXCEPT !.imports = loc.imports + 1]
            /\ UNCHANGED scene
       ELSE /\ scene' = [scene EXCEPT !.objects = scene.objects \o files.input.objects]
            /\ loc' = [loc EXCEPT !.imports = loc.imports + 1, !.i = 1]
            /\ bpc' = "shade"
    /\ UNCHANGED <<layerVars, script, files>>

\* variant: the Weighted Normal modifier is added first
AddedModifiersSwapped ==
    <<"WeightedNormal", "EdgeSplit">> \o
    (IF USE_SUBDIVISION THEN <<"Subdivision">> ELSE <<>>)

\* the modifiers apply_smooth_shading adds to one mesh, in this order
AddedModifiers ==
    <<"EdgeSplit", "WeightedNormal">> \o
    (IF USE_SUBDIVISION THEN <<"Subdivision">> ELSE <<>>)

\* one pass of the loop of apply_smooth_shading()
ShadeObject ==
    /\ script = "smooth_cue"
    /\ bpc = "shade"
    /\ loc.i <= Len(scene.objects)
    /\ LET obj == scene.objects[loc.i]
       IN  IF ~IsMesh(obj)
           THEN UNCHANGED scene
           ELSE scene' = [scene EXCEPT
                    !.active = loc.i,
                    !.objects[loc.i] =
                        [obj EXCEPT !.selected = FALSE,
                                    !.smooth = TRUE,
                                    !.modifiers = obj.modifiers \o AddedModifiers]]
    /\ loc' = [loc EXCEPT !.i = loc.i + 1]
    /\ UNCHANGED <<layerVars, script, bpc, files>>

\* the loop of apply_smooth_shading() is over
ShadeDone ==
    /\ script = "smooth_cue"
    /\ bpc = "shade"
    /\ loc.i > Len(scene.objects)
    /\ loc' = [loc EXCEPT !.i = 1]
    /\ bpc' = "apply"
    /\ UNCHANGED <<layerVars, script, scene, files>>

\* apply_modifiers(): the next object; a mesh becomes active and selected
\* and its modifier stack is copied
ApplyBegin ==
    /\ script = "smooth_cue"
    /\ bpc = "apply"
    /\ loc.i <= Len(scene.objects)
    /\ LET obj == scene.objects[loc.i]
       IN  IF ~IsMesh(obj)
           THEN /\ loc' = [loc EXCEPT !.i = loc.i + 1]
                /\ UNCHANGED <<scene, bpc>>
           ELSE /\ scene' = [scene EXCEPT !.active = loc.i,
                                          !.objects[loc.i].selected = TRUE]
                /\ loc' = [loc EXCEPT !.stack = obj.modifiers, !.j = 1]
                /\ bpc' = "apply_mod"
    /\ UNCHANGED <<layerVars, script, files>>

Without(seq, x) == SelectSeq(seq, LAMBDA y : y # x)

\* variant: the first failure ends the script
ApplyModifierStrict ==
    /\ script = "smooth_cue"
    /\ bpc = "apply_mod"
    /\ loc.j <= Len(loc.stack)
    /\ \E ok \in BOOLEAN :
          LET mod == loc.stack[loc.j]
          IN  /\ loc' = [loc EXCEPT
                    !.attempts = Append(loc.attempts,
                                        [obj |-> loc.i, mod |-> mod, ok |-> ok]),
                    !.j = loc.j + 1]
              /\ IF ok
                 THEN /\ scene' = [scene EXCEPT !.objects[loc.i].modifiers =
                                      Without(scene.objects[loc.i].modifiers, mod)]
                      /\ UNCHANGED bpc
                 ELSE /\ bpc' = "aborted"
                      /\ UNCHANGED scene
    /\ UNCHANGED <<layerVars, script, files>>

\* one pass of "for mod in obj.modifiers[:]": modifier_apply either bakes
\* the modifier and removes it from the stack, or raises; the exception is
\* caught and printed
ApplyModifier ==
    /\ script = "smooth_cue"
    /\ bpc = "apply_mod"
    /\ loc.j <= Len(loc.stack)
    /\ \E ok \in BOOLEAN :
          LET mod == loc.stack[loc.j]
          IN  /\ loc' = [loc EXCEPT
                    !.attempts = Append(loc.attempts,
                                        [obj |-> loc.i, mod |-> mod, ok |-> ok]),
                    !.warnings = IF ok THEN loc.warnings
                                 ELSE Append(loc.warnings, <<loc.i, mod>>),
                    !.j = loc.j + 1]
              /\ IF ok
                 THEN scene' = [scene EXCEPT !.objects[loc.i].modifiers =
                                   Without(scene.objects[loc.i].modifiers, mod)]
                 ELSE UNCHANGED scene
    /\ UNCHANGED <<layerVars, script, bpc, files>>

\* the stack of the object is done: obj.select_set(False)
ApplyEnd ==
    /\ script = "smooth_cue"
    /\ bpc = "apply_mod"
    /\ loc.j > Len(loc.stack)
    /\ scene' = [scene EXCEPT !.objects[loc.i].selected = FALSE]
    /\ loc' = [loc EXCEPT !.i = loc.i + 1, !.stack = <<>>, !.j = 0]
    /\ bpc' = "apply"
    /\ UNCHANGED <<layerVars, script, files>>

\* the loop of apply_modifiers() is over
ApplyDone ==
    /\ script = "smooth_cue"
    /\ bpc = "apply"
    /\ loc.i > Len(scene.objects)
    /\ bpc' = "export"
    /\ UNCHANGED <<layerVars, script, scene, loc, files>>

\* export_glb(OUTPUT_PATH) and the size report of main(): the meshes are
\* selected and the whole scene is written
ExportGlb ==
    /\ script = "smooth_cue"
    /\ bpc = "export"
    /\ scene' = [scene EXCEPT !.objects =
                    Select(scene.objects,
                           [k \in 1 .. Len(scene.objects) |-> IsMesh(scene.objects[k])])]
    /\ files' = [files EXCEPT !.output = [exists |-> TRUE, objects |-> scene'.objects]]
    /\ bpc' = "done"
    /\ UNCHANGED <<layerVars, script, loc>>

SmoothNext ==
    \/ ClearScene
    \/ ImportGlb
    \/ ShadeObject
    \/ ShadeDone
    \/ ApplyBegin
    \/ ApplyModifier
    \/ ApplyEnd
    \/ ApplyDone
    \/ ExportGlb

\* Blender runs the script to its end or to an uncaught exception
SpecSmooth == SmoothInit /\ [][SmoothNext]_vars /\ WF_vars(SmoothNext)

(***************************************************************************)
(* C16.  apply_modifiers makes an application attempt for every modifier   *)
(* on the stack of every mesh object, in stack order; a failed attempt is  *)
(* caught and logged, and it stops neither the attempts for the remaining  *)
(* modifiers of the object, nor the remaining mesh objects, nor the export *)
(* that follows.                                                           *)
(***************************************************************************)
\* the stack of object k when apply_modifiers starts
StackAtApply(k) == files.input.objects[k].modifiers \o AddedModifiers
AttemptsOn(k) == SelectSeq(loc.attempts, LAMBDA a : a.obj = k)
C16_AllAttempted ==
    (script = "smooth_cue" /\ bpc \in {"export", "done"}) =>
        /\ Len(scene.objects) = Len(files.input.objects)
        /\ \A k \in 1 .. Len(scene.objects) :
              IF IsMesh(scene.objects[k])
              THEN [n \in 1 .. Len(AttemptsOn(k)) |-> AttemptsOn(k)[n].mod]
                      = StackAtApply(k)
              ELSE AttemptsOn(k) = <<>>
        /\ \A n \in 1 .. Len(loc.attempts) :
              ~loc.attempts[n].ok =>
                  <<loc.attempts[n].obj, loc.attempts[n].mod>> \in
                      {loc.warnings[w] : w \in 1 .. Len(loc.warnings)}
C16_FailureLogged == \E n \in 1 .. Len(loc.attempts) : ~loc.attempts[n].ok
C16_BestEffort ==
    /\ []C16_AllAttempted
    /\ (C16_FailureLogged ~> (bpc = "done" /\ files.output.exists))

\* the script ended with an export although the first of several attempts
\* on the first of two meshes failed
C16_Witness ==
    /\ script = "smooth_cue"
    /\ bpc = "done"
    /\ files.output.exists
    /\ Len(loc.attempts) >= 4
    /\ ~loc.attempts[1].ok
    /\ loc.attempts[2].obj = loc.attempts[1].obj
    /\ \E n \in 1 .. Len(loc.attempts) : loc.attempts[n].obj # loc.attempts[1].obj

(***************************************************************************)
(* The two scripts that read a GLB: a run is one of them.                  *)
(***************************************************************************)
LoadInit == Init \/ SmoothInit
LoadNext == Next \/ SmoothNext
SpecLoad == LoadInit /\ [][LoadNext]_vars

(***************************************************************************)
(* C17.  A missing input file is fatal.  In smooth_cue.py the import is    *)
(* tried once, the script aborts there and export_glb never runs; in       *)
(* add_cue_customizable_layer.py the load aborts the script and gltf.save  *)
(* never runs.  In both no output file is written.                         *)
(***************************************************************************)
C17_MissingInputFatal ==
    /\ (script = "smooth_cue" /\ ~files.input.exists) =>
          /\ bpc \in {"clear_scene", "import", "aborted"}
          /\ loc.imports <= 1
          /\ loc.imports = 1 => bpc = "aborted"
          /\ ~files.output.exists
    /\ (script = "add_cue_customizable_layer" /\ ~input_file.exists) =>
          /\ pc \in {"load", "aborted"}
          /\ ~output_file.exists

\* smooth_cue.py has tried the import of a missing file
C17_Witness ==
    /\ script = "smooth_cue"
    /\ ~files.input.exists
    /\ loc.imports = 1
    /\ bpc = "aborted"

(***************************************************************************)
(* check_uv_dimensions.py: one call of get_uv_pixel_dimensions().          *)
(* A returned line is its format string and the values formatted into it.  *)
(***************************************************************************)
Line(text, args) == [text |-> text, args |-> args]

\* Python: a / b raises ZeroDivisionError, min() and max() of an empty
\* list raise ValueError
Div(a, b) ==
    IF b = 0 THEN [raised |-> TRUE, value |-> 0]
    ELSE [raised |-> FALSE, value |-> Ratio(a, b)]
MinOf(S) ==
    IF S = {} THEN [raised |-> TRUE, value |-> 0]
    ELSE [raised |-> FALSE, value |-> SetMin(S)]
MaxOf(S) ==
    IF S = {} THEN [raised |-> TRUE, value |-> 0]
    ELSE [raised |-> FALSE, value |-> SetMax(S)]

RECURSIVE SumV(_)
SumV(face_uvs) ==
    IF face_uvs = <<>> THEN 0 ELSE face_uvs[1][2] + SumV(Tail(face_uvs))

\* the meshes the utility is run on: faces carry only their loop UVs here
CapUV == << <<500, 100>>, <<600, 100>>, <<550, 200>> >>
SideUV == << <<0, 500>>, <<1000, 500>>, <<1000, 1000>>, <<0, 1000>> >>
EdgeUV == << <<0, 400>>, <<100, 500>>, <<100, 400>>, <<0, 500>> >>
FlatUV == << <<0, 700>>, <<1000, 700>>, <<500, 700>> >>
UVFace(uv) == Face([k \in DOMAIN uv |-> k], <<0, 0, 0>>, uv)
InspectKinds == {"camera", "nouv", "nofaces", "caps", "flat", "mixed"}
Inspected(kind, k, sel) ==
    [Object(<<kind, k>>, IF kind = "camera" THEN "CAMERA" ELSE "MESH") EXCEPT
        !.selected = sel,
        !.uv_layer = kind \in {"nofaces", "caps", "flat", "mixed"},
        !.faces = CASE kind = "nouv" -> <<Face(<<1, 2, 3>>, <<0, 0, 0>>, <<>>)>>
                    [] kind = "caps" -> <<UVFace(CapUV), UVFace(EdgeUV)>>
                    [] kind = "flat" -> <<UVFace(FlatUV)>>
                    [] kind = "mixed" -> <<UVFace(CapUV), UVFace(SideUV), UVFace(EdgeUV)>>
                    [] OTHER -> <<>>]

InspectScenes ==
    UNION {{Scene([k \in DOMAIN kinds |-> Inspected(kinds[k], k, sel)], act) :
               act \in 0 .. Len(kinds)} :
           kinds \in SeqUpTo(InspectKinds, MaxObjects), sel \in BOOLEAN}

NoStats == [computed |-> FALSE]

InspectInit ==
    /\ script = "check_uv_dimensions"
    /\ LayerIdle
    /\ bpc = "pick"
    /\ scene \in InspectScenes
    /\ loc = [before |-> scene, obj |-> 0, bm |-> "none", frees |-> 0,
              bm_faces |-> <<>>, f |-> 0,
              all_uvs |-> <<>>, rect_uvs |-> <<>>, circle_uvs |-> <<>>,
              stats |-> NoStats, outcome |-> "running", result |-> <<>>]
    /\ files = <<>>

FirstMesh(objs) ==
    IF \E k \in 1 .. Len(objs) : IsMesh(objs[k])
    THEN SetMin({k \in 1 .. Len(objs) : IsMesh(objs[k])})
    ELSE 0

\* obj = bpy.context.active_object; without one, the first mesh of the
\* scene is taken and made the active object
PickObject ==
    /\ script = "check_uv_dimensions"
    /\ bpc = "pick"
    /\ IF scene.active # 0
       THEN /\ loc' = [loc EXCEPT !.obj = scene.active]
            /\ UNCHANGED scene
       ELSE /\ loc' = [loc EXCEPT !.obj = FirstMesh(scene.objects)]
            /\ scene' = [scene EXCEPT !.active = FirstMesh(scene.objects)]
    /\ bpc' = "check"
    /\ UNCHANGED <<layerVars, script, files>>

\* no object or not a mesh: the error lines are returned; else
\* obj.select_set(True)
CheckObject ==
    /\ script = "check_uv_dimensions"
    /\ bpc = "check"
    /\ IF loc.obj = 0 \/ ~IsMesh(scene.objects[loc.obj])
       THEN /\ loc' = [loc EXCEPT
                    !.outcome = "returned",
                    !.result = <<Line("ERROR: No mesh object found!", <<>>),
                                 Line("Please import cue.glb first.", <<>>)>>]
            /\ bpc' = "end"
            /\ UNCHANGED scene
       ELSE /\ scene' = [scene EXCEPT !.objects[loc.obj].selected = TRUE]
            /\ bpc' = "bmesh"
            /\ UNCHANGED loc
    /\ UNCHANGED <<layerVars, script, files>>

\* bm = bmesh.new(); bm.from_mesh(obj.data); without an active UV layer the
\* bmesh is freed and the error line returned
NewBmesh ==
    /\ script = "check_uv_dimensions"
    /\ bpc = "bmesh"
    /\ LET obj == scene.objects[loc.obj]
       IN  IF ~obj.uv_layer
           THEN /\ loc' = [loc EXCEPT
                        !.bm = "freed", !.frees = loc.frees + 1,
                        !.outcome = "returned",
                        !.result = <<Line("ERROR: Mesh has no UV layers!", <<>>)>>]
                /\ bpc' = "end"
           ELSE /\ loc' = [loc EXCEPT !.bm = "live", !.bm_faces = obj.faces, !.f = 1]
                /\ bpc' = "faces"
    /\ UNCHANGED <<layerVars, script, scene, files>>

\* variant: a mean V of exactly 0.45 counts as rectangle
InRectangleFrom(avg_v) == avg_v >= 450

\* if avg_v > 0.45
InRectangle(avg_v) == avg_v > 450

\* one pass of "for face in bm.faces"
FaceStep ==
    /\ script = "check_uv_dimensions"
    /\ bpc = "faces"
    /\ loc.f <= Len(loc.bm_faces)
    /\ LET face_uvs == loc.bm_faces[loc.f].uv
           \* sum(...) / len(face_uvs): a float by an int
           avg_v == Div(SumV(face_uvs), Len(face_uvs) * Scale)
       IN  IF avg_v.raised
           THEN /\ loc' = [loc EXCEPT !.outcome = "raised"]
                /\ bpc' = "end"
           ELSE /\ loc' = [loc EXCEPT
                        !.all_uvs = loc.all_uvs \o face_uvs,
                        !.rect_uvs = IF InRectangle(avg_v.value)
                                     THEN loc.rect_uvs \o face_uvs
                                     ELSE loc.rect_uvs,
                        !.circle_uvs = IF InRectangle(avg_v.value)
                                       THEN loc.circle_uvs
                                       ELSE loc.circle_uvs \o face_uvs,
                        !.f = loc.f + 1]
                /\ UNCHANGED bpc
    /\ UNCHANGED <<layerVars, script, scene, files>>

\* variant: the return for an empty rectangle group comes before bm.free()
FreeBmeshLate ==
    /\ script = "check_uv_dimensions"
    /\ bpc = "faces"
    /\ loc.f > Len(loc.bm_faces)
    /\ IF Len(loc.rect_uvs) = 0
       THEN /\ loc' = [loc EXCEPT
                    !.outcome = "returned",
                    !.result = <<Line("ERROR: No rectangle UVs found!", <<>>),
                                 Line("Try adjusting threshold.", <<>>)>>]
            /\ bpc' = "end"
       ELSE /\ loc' = [loc EXCEPT !.bm = "freed", !.frees = loc.frees + 1]
            /\ bpc' = "stats"
    /\ UNCHANGED <<layerVars, script, scene, files>>

\* bm.free() after the loop, then the test of len(rect_uvs)
FreeBmesh ==
    /\ script = "check_uv_dimensions"
    /\ bpc = "faces"
    /\ loc.f > Len(loc.bm_faces)
    /\ IF Len(loc.rect_uvs) = 0
       THEN /\ loc' = [loc EXCEPT
                    !.bm = "freed", !.frees = loc.frees + 1,
                    !.outcome = "returned",
                    !.result = <<Line("ERROR: No rectangle UVs found!", <<>>),
                                 Line("Try adjusting threshold.", <<>>)>>]
            /\ bpc' = "end"
       ELSE /\ loc' = [loc EXCEPT !.bm = "freed", !.frees = loc.frees + 1]
            /\ bpc' = "stats"
    /\ UNCHANGED <<layerVars, script, scene, files>>

Us(uv_list) == {uv_list[k][1] : k \in DOMAIN uv_list}
Vs(uv_list) == {uv_list[k][2] : k \in DOMAIN uv_list}

\* variant: the aspect is always the quotient
AspectUnguarded(rect_width, rect_height) == Div(rect_width, rect_height)

\* rect_width / rect_height if rect_height > 0 else 1.0
Aspect(rect_width, rect_height) ==
    IF rect_height > 0 THEN Div(rect_width, rect_height)
    ELSE [raised |-> FALSE, value |-> Scale]

\* the bounds of the rectangle and of the circles, the derived numbers
Statistics(rect_uvs, circle_uvs) ==
    LET min_u == MinOf(Us(rect_uvs))
        max_u == MaxOf(Us(rect_uvs))
        min_v == MinOf(Vs(rect_uvs))
        max_v == MaxOf(Vs(rect_uvs))
        width == max_u.value - min_u.value
        height == max_v.value - min_v.value
        aspect == Aspect(width, height)
        circ == circle_uvs # <<>>
    IN  [computed |-> TRUE,
         raised |-> min_u.raised \/ max_u.raised \/ min_v.raised \/ max_v.raised
                    \/ aspect.raised,
         rect_min_u |-> min_u.value, rect_max_u |-> max_u.value,
         rect_min_v |-> min_v.value, rect_max_v |-> max_v.value,
         rect_width |-> width, rect_height |-> height,
         rect_aspect |-> aspect.value,
         circ_min_u |-> IF circ THEN SetMin(Us(circle_uvs)) ELSE 0,
         circ_max_u |-> IF circ THEN SetMax(Us(circle_uvs)) ELSE 0,
         circ_min_v |-> IF circ THEN SetMin(Vs(circle_uvs)) ELSE 0,
         circ_max_v |-> IF circ THEN SetMax(Vs(circle_uvs)) ELSE 0]

\* int(base * x) and round(base * x) of a float x >= 0
Pixels(base, x) == (base * x) \div Scale
Rounded(base, x) == (base * x + Scale \div 2) \div Scale

ResultLines(name, st, n_rect, n_circ) ==
    << Line("Object: {}", <<name>>),
       Line("", <<>>),
       Line("=== RECTANGLE (Side) ===", <<>>),
       Line("UV Points: {}", <<n_rect>>),
       Line("U: {} -> {}", <<st.rect_min_u, st.rect_max_u>>),
       Line("V: {} -> {}", <<st.rect_min_v, st.rect_max_v>>),
       Line("Width: {}", <<st.rect_width>>),
       Line("Height: {}", <<st.rect_height>>),
       Line("Aspect: {}:1", <<st.rect_aspect>>),
       Line("", <<>>),
       Line("=== CIRCLES (Caps) ===", <<>>),
       Line("UV Points: {}", <<n_circ>>) >> \o
    (IF n_circ > 0
     THEN << Line("U: {} -> {}", <<st.circ_min_u, st.circ_max_u>>),
             Line("V: {} -> {}", <<st.circ_min_v, st.circ_max_v>>) >>
     ELSE <<>>) \o
    << Line("", <<>>),
       Line("=== PIXEL DIMENSIONS ===", <<>>),
       Line("(Rectangle only, 1:1 mapping)", <<>>),
       Line("", <<>>) >> \o
    [b \in 1 .. 4 |->
        LET base == <<512, 1024, 2048, 4096>>[b]
        IN  Line("  {}px -> {} x {}",
                 <<base, Pixels(base, st.rect_width), Pixels(base, st.rect_height)>>)] \o
    << Line("", <<>>),
       Line("=== RECOMMENDATION ===", <<>>),
       Line("surface.jpg: {} x {}",
            <<Rounded(2048, st.rect_width), Rounded(2048, st.rect_height)>>),
       Line("Aspect ratio: {}:1", <<st.rect_aspect>>),
       Line("", <<>>),
       Line("=== FOR main.js ===", <<>>),
       Line("Rect V range: {} to {}", <<st.rect_min_v, st.rect_max_v>>),
       Line("Apply texture only where V > 0.45", <<>>) >>

\* the statistics and the result list
ComputeStats ==
    /\ script = "check_uv_dimensions"
    /\ bpc = "stats"
    /\ LET st == Statistics(loc.rect_uvs, loc.circle_uvs)
       IN  IF st.raised
           THEN loc' = [loc EXCEPT !.stats = st, !.outcome = "raised"]
           ELSE loc' = [loc EXCEPT
                    !.stats = st,
                    !.outcome = "returned",
                    !.result = ResultLines(scene.objects[loc.obj].name, st,
                                           Len(loc.rect_uvs), Len(loc.circle_uvs))]
    /\ bpc' = "end"
    /\ UNCHANGED <<layerVars, script, scene, files>>

InspectNext ==
    \/ PickObject
    \/ CheckObject
    \/ NewBmesh
    \/ FaceStep
    \/ FreeBmesh
    \/ ComputeStats

SpecInspect == InspectInit /\ [][InspectNext]_vars

(***************************************************************************)
(* C14.  get_uv_pixel_dimensions performs no mutation: on every path the   *)
(* scene after the call (mesh data, UV layers, active object, selection    *)
(* state of every object) is the scene before the call.                    *)
(***************************************************************************)
C14_NoMutation ==
    (script = "check_uv_dimensions" /\ bpc = "end") => scene = loc.before

(***************************************************************************)
(* C15.  get_uv_pixel_dimensions never raises.  When the scene has no mesh *)
(* object, when the mesh has no UV layer, or when no face falls in the     *)
(* rectangle group, it returns a list whose first line starts with ERROR   *)
(* and computes no statistics; statistics are computed over a non-empty    *)
(* rectangle group only, and a rectangle of height 0 gets the aspect 1.0   *)
(* without a division.                                                     *)
(***************************************************************************)
ErrorTexts ==
    {"ERROR: No mesh object found!", "ERROR: Mesh has no UV layers!",
     "ERROR: No rectangle UVs found!"}
NoMeshInScene == \A k \in 1 .. Len(loc.before.objects) : ~IsMesh(loc.before.objects[k])
MeshMeasured == loc.obj # 0 /\ IsMesh(loc.before.objects[loc.obj])
NoUVLayer == MeshMeasured /\ ~loc.before.objects[loc.obj].uv_layer
NoRectangleFace ==
    /\ MeshMeasured
    /\ loc.before.objects[loc.obj].uv_layer
    /\ \A f \in 1 .. Len(loc.before.objects[loc.obj].faces) :
          LET uv == loc.before.objects[loc.obj].faces[f].uv
          IN  SumV(uv) <= 450 * Len(uv)
C15_ErrorsReported ==
    (script = "check_uv_dimensions" /\ bpc = "end") =>
        /\ loc.outcome = "returned"
        /\ (NoMeshInScene \/ NoUVLayer \/ NoRectangleFace) =>
              /\ loc.result[1].text \in ErrorTexts
              /\ loc.stats = NoStats
        /\ loc.stats.computed =>
              /\ loc.rect_uvs # <<>>
              /\ loc.stats.rect_height = 0 => loc.stats.rect_aspect = Scale

\* a mesh with a UV layer whose faces all lie in the circle group
C15_Witness ==
    /\ script = "check_uv_dimensions"
    /\ bpc = "end"
    /\ NoRectangleFace
    /\ Len(loc.all_uvs) > 0
    /\ loc.result[1].text = "ERROR: No rectangle UVs found!"

(***************************************************************************)
(* Geometry inside Blender.  Lengths are fixed point with Unit units per   *)
(* 1.0 (one unit is 0.1 mm); ratios, angles, normals and UVs keep Scale.   *)
(* Vertex coordinates are local to the object; the world position of a     *)
(* vertex is its coordinates plus the location of the object (the scripts  *)
(* neither rotate nor scale an object before they read its vertices).      *)
(***************************************************************************)
Unit == 10000

\* x * num / den, rounded
Rescale(x, num, den) ==
    LET p == x * num
    IN  IF p >= 0 THEN (2 * p + den) \div (2 * den)
        ELSE 0 - ((2 * (0 - p) + den) \div (2 * den))

RECURSIVE Newton(_, _)
Newton(n, r) ==
    LET s == (r + n \div r) \div 2
    IN  IF s >= r THEN r ELSE Newton(n, s)

\* math.sqrt
Sqrt(n) == IF n = 0 THEN 0 ELSE Newton(n, n)

\* math.sqrt(v.co.x ** 2 + v.co.y ** 2)
AxisDistance(v) == Sqrt(v[1] * v[1] + v[2] * v[2])

Abs(x) == IF x < 0 THEN 0 - x ELSE x

\* atan of a ratio t in [0, 1]
AtanUnit(t) ==
    (QuarterPiFx * t) \div Scale
        + (((t * (Scale - t)) \div Scale) * (245 + (66 * t) \div Scale)) \div Scale

\* math.atan2(y, x), in (-pi, pi]
Atan2(y, x) ==
    LET ax == Abs(x)
        ay == Abs(y)
        base == IF ax = 0 /\ ay = 0 THEN 0
                ELSE IF ax >= ay THEN AtanUnit((ay * Scale) \div ax)
                ELSE HalfPiFx - AtanUnit((ax * Scale) \div ay)
        half == IF x >= 0 THEN base ELSE PiFx - base
    IN  IF y >= 0 THEN half ELSE 0 - half

\* bpy.ops.mesh.primitive_cylinder_add(vertices, radius, depth,
\* end_fill_type='NGON', location): ring vertex k sits at the angle
\* 2 pi k / vertices, bottom and top vertex of a ring follow each other;
\* `vertices` side quads, then the bottom and the top n-gon.  The operator
\* also writes its default UV map.
CylinderVerts(vertices, radius, depth) ==
    [n \in 1 .. 2 * vertices |->
        LET a == Angle((n - 1) \div 2, vertices)
        IN  << Rescale(Sin(a), radius, Scale), Rescale(Cos(a), radius, Scale),
               IF n % 2 = 0 THEN depth \div 2 ELSE 0 - depth \div 2 >>]

CylinderFaces(vertices) ==
    [k \in 1 .. vertices |->
        LET nxt == (k % vertices) + 1
            mid == Angle(2 * k - 1, 2 * vertices)
        IN  Face(<<2 * k - 1, 2 * nxt - 1, 2 * nxt, 2 * k>>,
                 <<Sin(mid), Cos(mid), 0>>,
                 << <<Ratio(k - 1, vertices), 500>>, <<Ratio(k, vertices), 500>>,
                    <<Ratio(k, vertices), 1000>>, <<Ratio(k - 1, vertices), 1000>> >>)]
    \o
    << Face([k \in 1 .. vertices |-> 2 * (vertices - k) + 1], <<0, 0, 0 - Scale>>,
            [k \in 1 .. vertices |->
                <<250 + Rescale(Sin(Angle(vertices - k, vertices)), 240, Scale),
                  250 + Rescale(Cos(Angle(vertices - k, vertices)), 240, Scale)>>]),
       Face([k \in 1 .. vertices |-> 2 * k], <<0, 0, Scale>>,
            [k \in 1 .. vertices |->
                <<750 + Rescale(Sin(Angle(k - 1, vertices)), 240, Scale),
                  250 + Rescale(Cos(Angle(k - 1, vertices)), 240, Scale)>>]) >>

PrimitiveCylinder(vertices, radius, depth, location) ==
    [Object("Cylinder", "MESH") EXCEPT
        !.selected = TRUE,
        !.location = location,
        !.verts = CylinderVerts(vertices, radius, depth),
        !.faces = CylinderFaces(vertices),
        !.uv_layer = TRUE]

\* an Add operator in object mode: the new object is the only selected one
\* and the active one
AddObject(sc, obj) ==
    [sc EXCEPT
        !.objects = Select(sc.objects, [k \in 1 .. Len(sc.objects) |-> FALSE])
                        \o <<obj>>,
        !.active = Len(sc.objects) + 1]

\* bpy.ops.object.mode_set: the active object and every selected mesh
\* enter edit mode together; OBJECT mode leaves it for all of them
ModeSet(sc, mode) ==
    [sc EXCEPT
        !.mode = IF mode = "EDIT" /\ sc.active = 0 THEN "OBJECT" ELSE mode,
        !.editing = IF mode = "EDIT" /\ sc.active # 0
                    THEN {sc.active} \cup
                         {k \in 1 .. Len(sc.objects) :
                              sc.objects[k].selected /\ IsMesh(sc.objects[k])}
                    ELSE {}]

\* select_all + delete, and every material and mesh removed
ClearAll(sc) ==
    [sc EXCEPT !.objects = <<>>, !.active = 0, !.materials = <<>>,
               !.mode = "OBJECT", !.editing = {}]

\* bpy.data.materials.new(name) and obj.data.materials.append(mat)
WithMaterial(sc, k, name) ==
    [sc EXCEPT !.materials = Append(sc.materials, name),
               !.objects[k].materials = Append(sc.objects[k].materials, name)]

World(obj, v) == <<v[1] + obj.location[1], v[2] + obj.location[2], v[3] + obj.location[3]>>
Zs(vs) == {vs[n][3] : n \in DOMAIN vs}

\* most ring vertices of a primitive; the scripts ask for 32
MaxRing == 5
RingSizes == 3 .. MaxRing

NoOutput == [output |-> [exists |-> FALSE, objects |-> <<>>]]

(***************************************************************************)
(* generate_cue.py                                                         *)
(***************************************************************************)
\* 0.001 Blender units per mm
MmToUnits == Unit \div 1000

\* (name, length_mm, radius_top_mm, radius_bottom_mm, material_name); the
\* radii of the table are diameters in mm
PoolCueSections ==
    << [name |-> "Tip", length_mm |-> 43, r_top_mm |-> 12, r_bottom_mm |-> 12,
        mat_name |-> "tip"],
       [name |-> "Shaft", length_mm |-> 682, r_top_mm |-> 12, r_bottom_mm |-> 14,
        mat_name |-> "shaft"],
       [name |-> "Ferrule", length_mm |-> 43, r_top_mm |-> 14, r_bottom_mm |-> 14,
        mat_name |-> "ferrule"],
       [name |-> "CustomWrap", length_mm |-> 653, r_top_mm |-> 14, r_bottom_mm |-> 25,
        mat_name |-> "outside"],
       [name |-> "Bumper", length_mm |-> 29, r_top_mm |-> 25, r_bottom_mm |-> 28,
        mat_name |-> "bumper"] >>

RECURSIVE SumLengths(_)
SumLengths(sections) ==
    IF sections = <<>> THEN 0
    ELSE sections[1].length_mm + SumLengths(Tail(sections))

\* the arguments of one call of create_tapered_cylinder
TaperCallArgs(name, length, radius_top, radius_bottom, z_position, material_name) ==
    [name |-> name, length |-> length, radius_top |-> radius_top,
     radius_bottom |-> radius_bottom, z_position |-> z_position,
     material_name |-> material_name]

GenerateLocals(segments) ==
    [segments |-> segments, k |-> 1, z_position |-> 0, all_objects |-> <<>>,
     custom_layer_obj |-> 0, call |-> <<>>, ret |-> "none", obj |-> 0,
     bm |-> <<>>, v |-> 0, sections |-> <<>>]

GenerateInit ==
    /\ script = "generate_cue"
    /\ LayerIdle
    /\ bpc = "g_clear"
    /\ scene \in StartScenes
    /\ \E segments \in RingSizes : loc = GenerateLocals(segments)
    /\ files = NoOutput

\* clear_scene() and the head of create_pool_cue()
G_Clear ==
    /\ bpc = "g_clear"
    /\ scene' = ClearAll(scene)
    /\ loc' = [loc EXCEPT !.z_position = SumLengths(PoolCueSections) * MmToUnits]
    /\ bpc' = "g_section"
    /\ UNCHANGED <<layerVars, script, files>>

\* variant: the section is put on top of the current position
SectionZAbove(z_position, length) == z_position

\* z_position -= length
SectionZ(z_position, length) == z_position - length

\* the head of one pass of the section loop, up to the call
G_Section ==
    /\ bpc = "g_section"
    /\ loc.k <= Len(PoolCueSections)
    /\ LET s == PoolCueSections[loc.k]
           length == s.length_mm * MmToUnits
           r_top == (s.r_top_mm * MmToUnits) \div 2
           r_bottom == (s.r_bottom_mm * MmToUnits) \div 2
           z_position == SectionZ(loc.z_position, length)
       IN  loc' = [loc EXCEPT
                !.z_position = z_position,
                !.call = TaperCallArgs(s.name, length, r_top, r_bottom, z_position,
                                       s.mat_name),
                !.ret = "g_next"]
    /\ bpc' = "t_call"
    /\ UNCHANGED <<layerVars, script, scene, files>>

\* create_tapered_cylinder: the primitive is added with radius 1.0 and
\* named
TaperCall ==
    /\ bpc = "t_call"
    /\ scene' = AddObject(scene,
                    [PrimitiveCylinder(loc.segments, Unit, loc.call.length,
                                       <<0, 0, loc.call.z_position
                                               + loc.call.length \div 2>>)
                        EXCEPT !.name = loc.call.name])
    /\ loc' = [loc EXCEPT !.obj = Len(scene.objects) + 1]
    /\ bpc' = "t_edit"
    /\ UNCHANGED <<layerVars, script, files>>

\* mode_set(mode='EDIT') and bmesh.from_edit_mesh(obj.data)
TaperEnter ==
    /\ bpc = "t_edit"
    /\ scene' = ModeSet(scene, "EDIT")
    /\ loc' = [loc EXCEPT !.bm = scene.objects[loc.obj].verts, !.v = 1]
    /\ bpc' = "t_vertex"
    /\ UNCHANGED <<layerVars, script, files>>

\* variant: the height is measured from the middle of the section
TaperTFromCentre(z, length) ==
    IF length > 0 THEN SetMax({0, SetMin({Scale, Ratio(z, length)})})
    ELSE Scale \div 2

\* t = (v.co.z - z_min) / length with z_min = -length / 2, clamped to [0, 1]
TaperT(z, length) ==
    IF length > 0
    THEN SetMax({0, SetMin({Scale, Ratio(z - (0 - length \div 2), length)})})
    ELSE Scale \div 2

\* radius_bottom + (radius_top - radius_bottom) * t
TargetRadius(radius_bottom, radius_top, t) ==
    radius_bottom + Rescale(radius_top - radius_bottom, t, Scale)

\* the vertex moved to the distance `radius` from the axis, unless it lies
\* within `eps` of the axis
ToRadius(co, radius, eps) ==
    LET current_dist == AxisDistance(co)
    IN  IF current_dist > eps
        THEN <<Rescale(co[1], radius, current_dist),
               Rescale(co[2], radius, current_dist), co[3]>>
        ELSE co

\* one pass of "for v in bm.verts" of create_tapered_cylinder
TaperVertex ==
    /\ bpc = "t_vertex"
    /\ loc.v <= Len(loc.bm)
    /\ LET co == loc.bm[loc.v]
           t == TaperT(co[3], loc.call.length)
           target_radius == TargetRadius(loc.call.radius_bottom,
                                         loc.call.radius_top, t)
       IN  loc' = [loc EXCEPT !.bm[loc.v] = ToRadius(co, target_radius, Unit \div 10000),
                              !.v = loc.v + 1]
    /\ UNCHANGED <<layerVars, script, bpc, scene, files>>

\* variant: the function returns without leaving edit mode
TaperLeaveInEdit ==
    /\ bpc = "t_vertex"
    /\ loc.v > Len(loc.bm)
    /\ scene' = WithMaterial([scene EXCEPT !.objects[loc.obj].verts = loc.bm],
                             loc.obj, loc.call.material_name)
    /\ loc' = [loc EXCEPT !.bm = <<>>, !.v = 0]
    /\ bpc' = loc.ret
    /\ UNCHANGED <<layerVars, script, files>>

\* bmesh.update_edit_mesh, mode_set(mode='OBJECT'), the material is created
\* and appended, the object returned
TaperLeave ==
    /\ bpc = "t_vertex"
    /\ loc.v > Len(loc.bm)
    /\ scene' = WithMaterial(
                    ModeSet([scene EXCEPT !.objects[loc.obj].verts = loc.bm], "OBJECT"),
                    loc.obj, loc.call.material_name)
    /\ loc' = [loc EXCEPT !.bm = <<>>, !.v = 0]
    /\ bpc' = loc.ret
    /\ UNCHANGED <<layerVars, script, files>>

\* the tail of one pass of the section loop
G_Next ==
    /\ bpc = "g_next"
    /\ loc' = [loc EXCEPT
            !.all_objects = Append(loc.all_objects, loc.obj),
            !.custom_layer_obj = IF loc.call.material_name = "outside"
                                 THEN loc.obj ELSE loc.custom_layer_obj,
            !.sections = Append(loc.sections,
                                [name |-> loc.call.name,
                                 material |-> loc.call.material_name,
                                 customizable |-> loc.call.material_name = "outside"]),
            !.k = loc.k + 1]
    /\ bpc' = "g_section"
    /\ UNCHANGED <<layerVars, script, scene, files>>

\* variant: the angle is not shifted by pi
AngleUUnshifted(x, y) == (Atan2(y, x) * Scale) \div TwoPiFx

\* u = (atan2(y, x) + pi) / (2 * pi)
AngleU(x, y) == ((Atan2(y, x) + PiFx) * Scale) \div TwoPiFx

\* apply_cylindrical_uv_proper(obj): every loop of every polygon gets the
\* cylindrical projection of its vertex in world space
CylindricalUVProper(obj) ==
    LET zs == {World(obj, obj.verts[n])[3] : n \in DOMAIN obj.verts}
        min_z == SetMin(zs)
        max_z == SetMax(zs)
        z_range == IF max_z > min_z THEN max_z - min_z ELSE Unit
    IN  [obj EXCEPT
            !.selected = FALSE,
            !.uv_layer = TRUE,
            !.faces = [f \in DOMAIN obj.faces |->
                [obj.faces[f] EXCEPT !.uv =
                    [l \in DOMAIN obj.faces[f].loops |->
                        LET world_co == World(obj, obj.verts[obj.faces[f].loops[l]])
                        IN  <<AngleU(world_co[1], world_co[2]),
                              Ratio(world_co[3] - min_z, z_range)>>]]]]

\* the section loop is over: the UV mapping of the customizable section
G_UV ==
    /\ bpc = "g_section"
    /\ loc.k > Len(PoolCueSections)
    /\ IF loc.custom_layer_obj # 0
       THEN scene' = [scene EXCEPT
                !.active = loc.custom_layer_obj,
                !.objects[loc.custom_layer_obj] =
                    CylindricalUVProper(scene.objects[loc.custom_layer_obj])]
       ELSE UNCHANGED scene
    /\ bpc' = "g_join"
    /\ UNCHANGED <<layerVars, script, loc, files>>

\* b joined into a: the vertices of b keep their world position
MergeMesh(a, b) ==
    [a EXCEPT
        !.verts = a.verts \o
            [n \in DOMAIN b.verts |->
                <<b.verts[n][1] + b.location[1] - a.location[1],
                  b.verts[n][2] + b.location[2] - a.location[2],
                  b.verts[n][3] + b.location[3] - a.location[3]>>],
        !.faces = a.faces \o
            [f \in DOMAIN b.faces |->
                [b.faces[f] EXCEPT !.loops =
                    [l \in DOMAIN b.faces[f].loops |->
                        b.faces[f].loops[l] + Len(a.verts)]]],
        !.materials = a.materials \o
            SelectSeq(b.materials,
                      LAMBDA m : \A i \in DOMAIN a.materials : a.materials[i] # m),
        !.uv_layer = a.uv_layer \/ b.uv_layer]

RECURSIVE MergeAll(_, _)
MergeAll(a, others) ==
    IF others = <<>> THEN a ELSE MergeAll(MergeMesh(a, others[1]), Tail(others))

\* bpy.ops.object.join(): the selected meshes become part of the active
\* object and leave the scene
Join(sc) ==
    LET idx == [k \in 1 .. Len(sc.objects) |-> k]
        joined == SelectSeq(idx, LAMBDA k : k # sc.active /\ sc.objects[k].selected
                                            /\ IsMesh(sc.objects[k]))
        kept == SelectSeq(idx, LAMBDA k : k = sc.active \/ ~sc.objects[k].selected
                                          \/ ~IsMesh(sc.objects[k]))
        merged == MergeAll(sc.objects[sc.active],
                           [n \in DOMAIN joined |-> sc.objects[joined[n]]])
    IN  [sc EXCEPT
            !.objects = [n \in DOMAIN kept |->
                            IF kept[n] = sc.active THEN merged ELSE sc.objects[kept[n]]],
            !.active = CHOOSE n \in DOMAIN kept : kept[n] = sc.active]

\* bpy.ops.mesh.remove_doubles(threshold): a vertex within the threshold of
\* an earlier one is merged into it
Near(a, b, threshold) ==
    (a[1] - b[1]) * (a[1] - b[1]) + (a[2] - b[2]) * (a[2] - b[2])
        + (a[3] - b[3]) * (a[3] - b[3]) <= threshold * threshold
RemoveDoubles(obj, threshold) ==
    LET rep == [i \in DOMAIN obj.verts |->
                   SetMin({j \in 1 .. i : Near(obj.verts[j], obj.verts[i], threshold)})]
        kept == {i \in DOMAIN obj.verts : rep[i] = i}
        rank == [i \in DOMAIN obj.verts |-> Cardinality({j \in kept : j <= rep[i]})]
    IN  [obj EXCEPT
            !.verts = [n \in 1 .. Cardinality(kept) |->
                          obj.verts[CHOOSE i \in kept : rank[i] = n]],
            !.faces = [f \in DOMAIN obj.faces |->
                          [obj.faces[f] EXCEPT !.loops =
                              [l \in DOMAIN obj.faces[f].loops |->
                                  rank[obj.faces[f].loops[l]]]]]]

\* transform_apply(location=True): the location goes into the vertices
ApplyLocation(obj) ==
    [obj EXCEPT !.verts = [n \in DOMAIN obj.verts |-> World(obj, obj.verts[n])],
                !.location = <<0, 0, 0>>]

\* origin_set(type='ORIGIN_GEOMETRY', center='BOUNDS') followed by
\* location = (0, 0, 0): the mesh ends centred on the world origin
Centre(obj) ==
    LET mid(c) == (SetMin({obj.verts[n][c] : n \in DOMAIN obj.verts})
                     + SetMax({obj.verts[n][c] : n \in DOMAIN obj.verts})) \div 2
    IN  [obj EXCEPT !.verts = [n \in DOMAIN obj.verts |->
                                  <<obj.verts[n][1] - mid(1), obj.verts[n][2] - mid(2),
                                    obj.verts[n][3] - mid(3)>>],
                    !.location = <<0, 0, 0>>]

SelectOnly(sc, S) ==
    [sc EXCEPT !.objects = Select(sc.objects, [k \in 1 .. Len(sc.objects) |-> k \in S])]

\* the sections are selected, the first made active, joined and named
G_Join ==
    /\ bpc = "g_join"
    /\ LET picked == [SelectOnly(scene, {loc.all_objects[n] : n \in DOMAIN loc.all_objects})
                         EXCEPT !.active = loc.all_objects[1]]
           joined == Join(picked)
       IN  scene' = [joined EXCEPT !.objects[joined.active].name = "PoolCue"]
    /\ bpc' = "g_merge"
    /\ UNCHANGED <<layerVars, script, loc, files>>

\* edit mode, select all, remove_doubles(threshold=0.00001), object mode
G_Merge ==
    /\ bpc = "g_merge"
    /\ scene' = ModeSet([ModeSet(scene, "EDIT") EXCEPT
                            !.objects[scene.active] =
                                RemoveDoubles(scene.objects[scene.active],
                                              Unit \div 100000)],
                        "OBJECT")
    /\ bpc' = "g_apply"
    /\ UNCHANGED <<layerVars, script, loc, files>>

\* transform_apply, origin_set and cue.location = (0, 0, 0)
G_Apply ==
    /\ bpc = "g_apply"
    /\ scene' = [scene EXCEPT !.objects[scene.active] =
                    Centre(ApplyLocation(scene.objects[scene.active]))]
    /\ bpc' = "g_export"
    /\ UNCHANGED <<layerVars, script, loc, files>>

\* export_glb(OUTPUT_PATH): the whole scene is written
G_Export ==
    /\ bpc = "g_export"
    /\ files' = [files EXCEPT !.output = [exists |-> TRUE, objects |-> scene.objects]]
    /\ bpc' = "done"
    /\ UNCHANGED <<layerVars, script, scene, loc>>

GenerateNext ==
    \/ G_Clear
    \/ G_Section
    \/ TaperCall
    \/ TaperEnter
    \/ TaperVertex
    \/ TaperLeave
    \/ G_Next
    \/ G_UV
    \/ G_Join
    \/ G_Merge
    \/ G_Apply
    \/ G_Export

SpecGenerate == GenerateInit /\ [][GenerateNext]_vars

\* create_tapered_cylinder called on its own, over a range of arguments
TaperLengths == {0, 43 * MmToUnits, 682 * MmToUnits}
TaperRadii == {(12 * MmToUnits) \div 2, (25 * MmToUnits) \div 2, (28 * MmToUnits) \div 2}
TaperInit ==
    /\ script = "create_tapered_cylinder"
    /\ LayerIdle
    /\ bpc = "t_call"
    /\ scene \in {ClearAll(sc) : sc \in StartScenes}
    /\ \E segments \in RingSizes, length \in TaperLengths,
          radius_top \in TaperRadii, radius_bottom \in TaperRadii,
          z_position \in {0, 725 * MmToUnits} :
          loc = [GenerateLocals(segments) EXCEPT
                    !.call = TaperCallArgs("Section", length, radius_top,
                                           radius_bottom, z_position, "outside"),
                    !.ret = "end"]
    /\ files = NoOutput

TaperNext ==
    \/ TaperCall
    \/ TaperEnter
    \/ TaperVertex
    \/ TaperLeave

SpecTaper == TaperInit /\ [][TaperNext]_vars

(***************************************************************************)
(* C18.  create_tapered_cylinder with length > 0 gives a vertex a radius   *)
(* that is linear in its normalized height t: every off-axis vertex of the *)
(* bottom ring (t = 0) ends at the distance radius_bottom from the axis,   *)
(* every off-axis vertex of the top ring (t = 1) at radius_top, in the     *)
(* direction it had; with radius_top = radius_bottom all vertices end at   *)
(* one distance (a true cylinder).  The z of every vertex and every vertex *)
(* within 0.0001 of the axis stay as the primitive made them.  Distances   *)
(* are compared to within one unit of the fixed point.                     *)
(***************************************************************************)
C18_LinearTaper ==
    (script = "create_tapered_cylinder" /\ bpc = "end" /\ loc.call.length > 0) =>
        LET obj == scene.objects[loc.obj]
            made == CylinderVerts(loc.segments, Unit, loc.call.length)
            rb == loc.call.radius_bottom
            rt == loc.call.radius_top
        IN  /\ DOMAIN obj.verts = DOMAIN made
            /\ Abs(2 * TargetRadius(rb, rt, Scale \div 2) - (rb + rt)) <= 1
            /\ TargetRadius(rb, rt, 0) = rb
            /\ TargetRadius(rb, rt, Scale) = rt
            /\ \A n \in DOMAIN made :
                  LET o == made[n]
                      v == obj.verts[n]
                      want == IF o[3] = SetMin(Zs(made)) THEN rb ELSE rt
                  IN  /\ v[3] = o[3]
                      /\ o[3] \in {SetMin(Zs(made)), SetMax(Zs(made))}
                      /\ AxisDistance(o) > Unit \div 10000 =>
                            /\ Abs(AxisDistance(v) - want) <= 1
                            /\ Abs(v[1] * o[2] - v[2] * o[1]) <= Abs(o[1]) + Abs(o[2])
                            /\ v[1] * o[1] + v[2] * o[2] > 0
                      /\ AxisDistance(o) <= Unit \div 10000 => v = o
                      /\ rb = rt => Abs(AxisDistance(v) - rb) <= 1

\* a section that narrows towards the top has been tapered
C18_Witness ==
    /\ script = "create_tapered_cylinder"
    /\ bpc = "end"
    /\ loc.call.length > 0
    /\ loc.call.radius_top < loc.call.radius_bottom
    /\ LET obj == scene.objects[loc.obj]
       IN  /\ Abs(AxisDistance(obj.verts[1]) - loc.call.radius_bottom) <= 1
           /\ Abs(AxisDistance(obj.verts[2]) - loc.call.radius_top) <= 1
           /\ obj.verts[1][3] < obj.verts[2][3]

(***************************************************************************)
(* C20.  create_pool_cue stacks its five sections from tip to bumper       *)
(* without gap or overlap: the lengths sum to 1450 mm, the top of the      *)
(* first section is at z = 1450 mm, the bottom of each section is the top  *)
(* of the next, the bottom of the Bumper is at z = 0, and the ring at the  *)
(* bottom of a section has the radius of the ring at the top of the next.  *)
(***************************************************************************)
SectionObject(k) == scene.objects[loc.all_objects[k]]
SectionTop(k) == SectionObject(k).location[3] + SetMax(Zs(SectionObject(k).verts))
SectionBottom(k) == SectionObject(k).location[3] + SetMin(Zs(SectionObject(k).verts))
C20_SectionsContiguous ==
    (script = "generate_cue" /\ bpc = "g_join") =>
        /\ Len(loc.all_objects) = 5
        /\ SumLengths(PoolCueSections) = 1450
        /\ SectionTop(1) = 1450 * MmToUnits
        /\ SectionBottom(5) = 0
        /\ \A k \in 1 .. 5 :
              SectionTop(k) - SectionBottom(k) = PoolCueSections[k].length_mm * MmToUnits
        /\ \A k \in 1 .. 4 :
              /\ SectionBottom(k) = SectionTop(k + 1)
              /\ \A j \in 1 .. loc.segments :
                    LET low == SectionObject(k).verts[2 * j - 1]
                        high == SectionObject(k + 1).verts[2 * j]
                    IN  /\ low[1] = high[1] /\ low[2] = high[2]
                        /\ AxisDistance(low) = AxisDistance(high)
                        /\ Abs(AxisDistance(low)
                               - (PoolCueSections[k].r_bottom_mm * MmToUnits) \div 2) <= 1

\* the five sections stand in the scene, not yet joined
C20_Witness ==
    /\ script = "generate_cue"
    /\ bpc = "g_join"
    /\ Len(loc.all_objects) = 5
    /\ Len(scene.objects) = 5
    /\ SectionTop(1) = 14500
    /\ SectionBottom(4) = SectionTop(5)
    /\ SectionBottom(5) = 0

(***************************************************************************)
(* create_cue_export.py                                                    *)
(***************************************************************************)
\* total_length = 3.0, tip_radius = 0.013, butt_radius = 0.029
total_length == 3 * Unit
tip_radius == (13 * Unit) \div 1000
butt_radius == (29 * Unit) \div 1000

\* (name, z_start_ratio, z_end_ratio, is_custom); 0.008 is 8, 0.992 is 992
CueSections ==
    << [name |-> "Bumper", start_ratio |-> 0, end_ratio |-> 8, is_custom |-> FALSE],
       [name |-> "CustomArea", start_ratio |-> 8, end_ratio |-> Scale \div 2,
        is_custom |-> TRUE],
       [name |-> "Shaft", start_ratio |-> Scale \div 2, end_ratio |-> 992,
        is_custom |-> FALSE],
       [name |-> "Tip", start_ratio |-> 992, end_ratio |-> Scale, is_custom |-> FALSE] >>

\* butt_radius + (tip_radius - butt_radius) * z_ratio
get_radius(z_ratio) == butt_radius + Rescale(tip_radius - butt_radius, z_ratio, Scale)

ExportLocals(segments) ==
    [segments |-> segments, k |-> 1, all_objects |-> <<>>, call |-> <<>>, obj |-> 0,
     bm |-> <<>>, v |-> 0, sections |-> <<>>]

ExportInit ==
    /\ script = "create_cue_export"
    /\ LayerIdle
    /\ bpc = "e_clear"
    /\ scene \in StartScenes
    /\ \E segments \in RingSizes : loc = ExportLocals(segments)
    /\ files = NoOutput

\* clear_scene()
E_Clear ==
    /\ bpc = "e_clear"
    /\ scene' = ClearAll(scene)
    /\ bpc' = "e_section"
    /\ UNCHANGED <<layerVars, script, loc, files>>

\* the head of one pass of the section loop, up to the call
E_Section ==
    /\ bpc = "e_section"
    /\ loc.k <= Len(CueSections)
    /\ LET s == CueSections[loc.k]
           z_start == Rescale(s.start_ratio, total_length, Scale)
           z_end == Rescale(s.end_ratio, total_length, Scale)
       IN  loc' = [loc EXCEPT !.call =
                      [name |-> s.name, length |-> z_end - z_start,
                       r_start |-> get_radius(s.start_ratio),
                       r_end |-> get_radius(s.end_ratio),
                       z_start |-> z_start, is_custom |-> s.is_custom]]
    /\ bpc' = "e_call"
    /\ UNCHANGED <<layerVars, script, scene, files>>

\* create_cue_section: the primitive is added with radius 1.0 and named
SectionCall ==
    /\ bpc = "e_call"
    /\ scene' = AddObject(scene,
                    [PrimitiveCylinder(loc.segments, Unit, loc.call.length,
                                       <<0, 0, loc.call.z_start + loc.call.length \div 2>>)
                        EXCEPT !.name = loc.call.name])
    /\ loc' = [loc EXCEPT !.obj = Len(scene.objects) + 1]
    /\ bpc' = "e_edit"
    /\ UNCHANGED <<layerVars, script, files>>

\* mode_set(mode='EDIT') and bmesh.from_edit_mesh(obj.data)
SectionEnter ==
    /\ bpc = "e_edit"
    /\ scene' = ModeSet(scene, "EDIT")
    /\ loc' = [loc EXCEPT !.bm = scene.objects[loc.obj].verts, !.v = 1]
    /\ bpc' = "e_vertex"
    /\ UNCHANGED <<layerVars, script, files>>

\* local_z = (v.co.z - z_start) / length, clamped to [0, 1]; v.co is the
\* coordinate of the vertex inside the object
LocalZ(z, z_start, length) ==
    IF length > 0
    THEN SetMax({0, SetMin({Scale, Ratio(z - z_start, length)})})
    ELSE 0

\* one pass of "for v in bm.verts" of create_cue_section
SectionVertex ==
    /\ bpc = "e_vertex"
    /\ loc.v <= Len(loc.bm)
    /\ LET co == loc.bm[loc.v]
           local_z == LocalZ(co[3], loc.call.z_start, loc.call.length)
           radius == TargetRadius(loc.call.r_start, loc.call.r_end, local_z)
       IN  loc' = [loc EXCEPT !.bm[loc.v] = ToRadius(co, radius, Unit \div 1000),
                              !.v = loc.v + 1]
    /\ UNCHANGED <<layerVars, script, bpc, scene, files>>

\* bmesh.update_edit_mesh, mode_set(mode='OBJECT'), the object returned
SectionLeave ==
    /\ bpc = "e_vertex"
    /\ loc.v > Len(loc.bm)
    /\ scene' = ModeSet([scene EXCEPT !.objects[loc.obj].verts = loc.bm], "OBJECT")
    /\ loc' = [loc EXCEPT !.bm = <<>>, !.v = 0]
    /\ bpc' = "e_material"
    /\ UNCHANGED <<layerVars, script, files>>

\* bpy.ops.uv.cylinder_project on the whole mesh, between a switch to edit
\* mode and back; the object ends deselected
CylinderProject(obj) ==
    LET min_z == SetMin(Zs(obj.verts))
        max_z == SetMax(Zs(obj.verts))
        z_range == IF max_z > min_z THEN max_z - min_z ELSE Unit
    IN  [obj EXCEPT
            !.selected = FALSE,
            !.uv_layer = TRUE,
            !.faces = [f \in DOMAIN obj.faces |->
                [obj.faces[f] EXCEPT !.uv =
                    [l \in DOMAIN obj.faces[f].loops |->
                        LET co == obj.verts[obj.faces[f].loops[l]]
                        IN  <<AngleU(co[1], co[2]), Ratio(co[3] - min_z, z_range)>>]]]]

ExportMaterialName(name, is_custom) ==
    IF name = "Tip" THEN "Tip_mat"
    ELSE IF name = "Bumper" THEN "Bumper_mat"
    ELSE IF is_custom THEN "outside"
    ELSE "Shaft_mat"

\* the tail of one pass of the section loop: the material, the UVs of the
\* custom section
E_Material ==
    /\ bpc = "e_material"
    /\ LET mat == ExportMaterialName(loc.call.name, loc.call.is_custom)
           custom == loc.call.name # "Tip" /\ loc.call.name # "Bumper"
                     /\ loc.call.is_custom
           made == [scene EXCEPT !.materials = Append(scene.materials, mat)]
           mapped == IF custom
                     THEN ModeSet(
                              [ModeSet([made EXCEPT !.active = loc.obj,
                                                    !.objects[loc.obj].selected = TRUE],
                                       "EDIT")
                                  EXCEPT !.objects[loc.obj] =
                                             CylinderProject(scene.objects[loc.obj])],
                              "OBJECT")
                     ELSE made
       IN  /\ scene' = [mapped EXCEPT !.objects[loc.obj].materials =
                           Append(mapped.objects[loc.obj].materials, mat)]
           /\ loc' = [loc EXCEPT
                   !.all_objects = Append(loc.all_objects, loc.obj),
                   !.sections = Append(loc.sections,
                                       [name |-> loc.call.name, material |-> mat,
                                        customizable |-> loc.call.is_custom]),
                   !.k = loc.k + 1]
    /\ bpc' = "e_section"
    /\ UNCHANGED <<layerVars, script, files>>

\* the section loop is over: the sections are selected, the first made
\* active, joined and named
E_Join ==
    /\ bpc = "e_section"
    /\ loc.k > Len(CueSections)
    /\ LET picked == [SelectOnly(scene, {loc.all_objects[n] : n \in DOMAIN loc.all_objects})
                         EXCEPT !.active = loc.all_objects[1]]
           joined == Join(picked)
       IN  scene' = [joined EXCEPT !.objects[joined.active].name = "PoolCue"]
    /\ bpc' = "e_merge"
    /\ UNCHANGED <<layerVars, script, loc, files>>

\* edit mode, select all, remove_doubles(threshold=0.0001), object mode
E_Merge ==
    /\ bpc = "e_merge"
    /\ scene' = ModeSet([ModeSet(scene, "EDIT") EXCEPT
                            !.objects[scene.active] =
                                RemoveDoubles(scene.objects[scene.active],
                                              Unit \div 10000)],
                        "OBJECT")
    /\ bpc' = "e_apply"
    /\ UNCHANGED <<layerVars, script, loc, files>>

\* transform_apply, origin_set and cue.location = (0, 0, 0)
E_Apply ==
    /\ bpc = "e_apply"
    /\ scene' = [scene EXCEPT !.objects[scene.active] =
                    Centre(ApplyLocation(scene.objects[scene.active]))]
    /\ bpc' = "e_export"
    /\ UNCHANGED <<layerVars, script, loc, files>>

\* export_glb(): the whole scene is written
E_Export ==
    /\ bpc = "e_export"
    /\ files' = [files EXCEPT !.output = [exists |-> TRUE, objects |-> scene.objects]]
    /\ bpc' = "done"
    /\ UNCHANGED <<layerVars, script, scene, loc>>

ExportNext ==
    \/ E_Clear
    \/ E_Section
    \/ SectionCall
    \/ SectionEnter
    \/ SectionVertex
    \/ SectionLeave
    \/ E_Material
    \/ E_Join
    \/ E_Merge
    \/ E_Apply
    \/ E_Export

SpecExport == ExportInit /\ [][ExportNext]_vars

(***************************************************************************)
(* C19.  The taper of create_cue_export.py is seamless: create_cue_section *)
(* moves the bottom ring of each of the four sections to the radius        *)
(* get_radius(start_ratio) and its top ring to get_radius(end_ratio), so   *)
(* two adjacent sections have the same radius where they meet, from        *)
(* butt_radius 0.029 at the very bottom to tip_radius 0.013 at the very    *)
(* top.  Distances are compared to within one unit of the fixed point.     *)
(***************************************************************************)
RingRadii(obj, z) == {AxisDistance(obj.verts[n]) : n \in {m \in DOMAIN obj.verts : obj.verts[m][3] = z}}
BottomRadii(k) == RingRadii(SectionObject(k), SetMin(Zs(SectionObject(k).verts)))
TopRadii(k) == RingRadii(SectionObject(k), SetMax(Zs(SectionObject(k).verts)))
C19_SeamlessTaper ==
    (script = "create_cue_export" /\ bpc = "e_section" /\ loc.k > Len(CueSections)) =>
        /\ \A k \in 1 .. Len(CueSections) :
              /\ \A r \in BottomRadii(k) :
                    Abs(r - get_radius(CueSections[k].start_ratio)) <= 1
              /\ \A r \in TopRadii(k) :
                    Abs(r - get_radius(CueSections[k].end_ratio)) <= 1
        /\ \A k \in 1 .. Len(CueSections) - 1 :
              \A r \in TopRadii(k), q \in BottomRadii(k + 1) : Abs(r - q) <= 2
        /\ \A r \in BottomRadii(1) : Abs(r - butt_radius) <= 1
        /\ \A r \in TopRadii(Len(CueSections)) : Abs(r - tip_radius) <= 1

(***************************************************************************)
(* create_cue_butt.py                                                      *)
(***************************************************************************)
CUE_LENGTH == 2 * Unit
CUE_RADIUS == (35 * Unit) \div 1000
BUMPER_LENGTH == (8 * Unit) \div 100
BUMPER_RADIUS == (38 * Unit) \div 1000

ButtLocals(segments) ==
    [segments |-> segments, cue_body |-> 0, bumper |-> 0, final_cue |-> 0,
     obj |-> 0, ret |-> "none", bm |-> <<>>, f |-> 0, min_z |-> 0, max_z |-> 0,
     sections |-> <<>>]

\* the scene the script starts with: the data block of a material lives on
\* when this script deletes the objects
ButtStartScenes ==
    StartScenes \cup
    {[Scene(<<[Object(<<"Cube", 1>>, "MESH") EXCEPT !.materials = <<"Material">>]>>, 1)
         EXCEPT !.materials = <<"Material">>]}

ButtInit ==
    /\ script = "create_cue_butt"
    /\ LayerIdle
    /\ bpc = "b_clear"
    /\ scene \in ButtStartScenes
    /\ \E segments \in RingSizes : loc = ButtLocals(segments)
    /\ files = NoOutput

\* select_all and delete: the objects go, the materials stay
B_Clear ==
    /\ bpc = "b_clear"
    /\ scene' = [scene EXCEPT !.objects = <<>>, !.active = 0]
    /\ bpc' = "b_body"
    /\ UNCHANGED <<layerVars, script, loc, files>>

\* the main cylinder
B_Body ==
    /\ bpc = "b_body"
    /\ scene' = AddObject(scene,
                    [PrimitiveCylinder(loc.segments, CUE_RADIUS, CUE_LENGTH,
                                       <<0, 0, CUE_LENGTH \div 2>>)
                        EXCEPT !.name = "CueButt_Body"])
    /\ loc' = [loc EXCEPT !.cue_body = Len(scene.objects) + 1]
    /\ bpc' = "b_bumper"
    /\ UNCHANGED <<layerVars, script, files>>

\* the bumper cylinder
B_Bumper ==
    /\ bpc = "b_bumper"
    /\ scene' = AddObject(scene,
                    [PrimitiveCylinder(loc.segments, BUMPER_RADIUS, BUMPER_LENGTH,
                                       <<0, 0, 0 - BUMPER_LENGTH \div 2>>)
                        EXCEPT !.name = "CueButt_Bumper"])
    /\ loc' = [loc EXCEPT !.bumper = Len(scene.objects) + 1]
    /\ bpc' = "b_materials"
    /\ UNCHANGED <<layerVars, script, files>>

\* the two materials are created and assigned; then the call
\* unwrap_cylinder_side_only(cue_body, UV_ASPECT)
B_Materials ==
    /\ bpc = "b_materials"
    /\ scene' = WithMaterial(WithMaterial(scene, loc.cue_body, "CueButt_Body_Material"),
                             loc.bumper, "Rubber_Bumper")
    /\ loc' = [loc EXCEPT
            !.sections = << [name |-> "CueButt_Body",
                             material |-> "CueButt_Body_Material",
                             customizable |-> TRUE],
                            [name |-> "CueButt_Bumper", material |-> "Rubber_Bumper",
                             customizable |-> FALSE] >>,
            !.obj = loc.cue_body,
            !.ret = "b_bumper_uv"]
    /\ bpc' = "u_enter"
    /\ UNCHANGED <<layerVars, script, files>>

\* unwrap_cylinder_side_only: the object becomes active and selected, edit
\* mode, a UV layer is made if there is none, the z bounds are taken
UnwrapEnter ==
    /\ bpc = "u_enter"
    /\ scene' = ModeSet([scene EXCEPT !.active = loc.obj,
                                      !.objects[loc.obj].selected = TRUE], "EDIT")
    /\ LET obj == scene.objects[loc.obj]
       IN  loc' = [loc EXCEPT
                !.bm = [verts |-> obj.verts,
                        faces |-> IF obj.uv_layer THEN obj.faces
                                  ELSE [f \in DOMAIN obj.faces |->
                                           [obj.faces[f] EXCEPT !.uv =
                                               [l \in DOMAIN obj.faces[f].loops |->
                                                   <<0, 0>>]]]],
                !.min_z = SetMin(Zs(obj.verts)),
                !.max_z = SetMax(Zs(obj.verts)),
                !.f = 1]
    /\ bpc' = "u_face"
    /\ UNCHANGED <<layerVars, script, files>>

\* abs(normal.z) > 0.9
IsCap(normal) == Abs(normal[3]) > 900

\* v = (vert.co.z - min_z) / z_range if z_range > 0 else 0.5
HeightV(z, min_z, z_range) ==
    IF z_range > 0 THEN Ratio(z - min_z, z_range) ELSE Scale \div 2

\* one pass of "for face in bm.faces": the loops of a cap go to
\* (0.5, 0.005), the loops of a side face to the cylindrical projection
UnwrapFace ==
    /\ bpc = "u_face"
    /\ loc.f <= Len(loc.bm.faces)
    /\ LET face == loc.bm.faces[loc.f]
           z_range == loc.max_z - loc.min_z
       IN  loc' = [loc EXCEPT
                !.bm.faces[loc.f].uv =
                    [l \in DOMAIN face.loops |->
                        LET co == loc.bm.verts[face.loops[l]]
                        IN  IF IsCap(face.normal)
                            THEN <<Scale \div 2, 5>>
                            ELSE <<AngleU(co[1], co[2]),
                                   HeightV(co[3], loc.min_z, z_range)>>],
                !.f = loc.f + 1]
    /\ UNCHANGED <<layerVars, script, bpc, scene, files>>

\* bmesh.update_edit_mesh and mode_set(mode='OBJECT')
UnwrapLeave ==
    /\ bpc = "u_face"
    /\ loc.f > Len(loc.bm.faces)
    /\ scene' = ModeSet([scene EXCEPT !.objects[loc.obj].faces = loc.bm.faces,
                                      !.objects[loc.obj].uv_layer = TRUE],
                        "OBJECT")
    /\ loc' = [loc EXCEPT !.bm = <<>>, !.f = 0]
    /\ bpc' = loc.ret
    /\ UNCHANGED <<layerVars, script, files>>

\* bpy.ops.uv.smart_project on one mesh in edit mode with everything
\* selected: each face is projected along the axis its normal is nearest to
Spread(c, lo, hi) == IF hi > lo THEN Ratio(c - lo, hi - lo) ELSE 0
SmartProject(obj) ==
    LET lo(c) == SetMin({obj.verts[n][c] : n \in DOMAIN obj.verts})
        hi(c) == SetMax({obj.verts[n][c] : n \in DOMAIN obj.verts})
    IN  [obj EXCEPT
            !.uv_layer = TRUE,
            !.faces = [f \in DOMAIN obj.faces |->
                [obj.faces[f] EXCEPT !.uv =
                    [l \in DOMAIN obj.faces[f].loops |->
                        LET co == obj.verts[obj.faces[f].loops[l]]
                        IN  IF IsCap(obj.faces[f].normal)
                            THEN <<Spread(co[1], lo(1), hi(1)), Spread(co[2], lo(2), hi(2))>>
                            ELSE <<Spread(co[1], lo(1), hi(1)),
                                   Spread(co[3], lo(3), hi(3))>>]]]]

\* the bumper becomes active and selected; edit mode, select all,
\* smart_project, object mode.  The operator works on every object that is
\* in edit mode.
B_BumperUV ==
    /\ bpc = "b_bumper_uv"
    /\ LET picked == ModeSet([scene EXCEPT !.active = loc.bumper,
                                           !.objects[loc.bumper].selected = TRUE],
                             "EDIT")
       IN  scene' = ModeSet([picked EXCEPT !.objects =
                                [k \in DOMAIN picked.objects |->
                                    IF k \in picked.editing
                                    THEN SmartProject(picked.objects[k])
                                    ELSE picked.objects[k]]],
                            "OBJECT")
    /\ bpc' = "b_join"
    /\ UNCHANGED <<layerVars, script, loc, files>>

\* both objects selected, the body active, joined and named
B_Join ==
    /\ bpc = "b_join"
    /\ LET picked == [SelectOnly(scene, {loc.cue_body, loc.bumper})
                         EXCEPT !.active = loc.cue_body]
           joined == Join(picked)
       IN  /\ scene' = [joined EXCEPT !.objects[joined.active].name = "CueButt"]
           /\ loc' = [loc EXCEPT !.final_cue = joined.active]
    /\ bpc' = "b_apply"
    /\ UNCHANGED <<layerVars, script, files>>

\* transform_apply(location=True, rotation=True, scale=True)
B_Apply ==
    /\ bpc = "b_apply"
    /\ scene' = [scene EXCEPT !.objects =
                    [k \in DOMAIN scene.objects |->
                        IF scene.objects[k].selected
                        THEN ApplyLocation(scene.objects[k])
                        ELSE scene.objects[k]]]
    /\ bpc' = "b_export"
    /\ UNCHANGED <<layerVars, script, loc, files>>

\* only the cue is selected and the selection is exported
B_Export ==
    /\ bpc = "b_export"
    /\ scene' = SelectOnly(scene, {loc.final_cue})
    /\ files' = [files EXCEPT !.output =
                    [exists |-> TRUE,
                     objects |-> SelectSeq(scene'.objects, LAMBDA o : o.selected)]]
    /\ bpc' = "done"
    /\ UNCHANGED <<layerVars, script, loc>>

ButtNext ==
    \/ B_Clear
    \/ B_Body
    \/ B_Bumper
    \/ B_Materials
    \/ UnwrapEnter
    \/ UnwrapFace
    \/ UnwrapLeave
    \/ B_BumperUV
    \/ B_Join
    \/ B_Apply
    \/ B_Export

SpecButt == ButtInit /\ [][ButtNext]_vars

\* unwrap_cylinder_side_only called on its own, over a range of cylinders:
\* the cue body, the bumper, a disc of no height, each with or without the
\* UV map of the primitive
UnwrapShapes ==
    {<<CUE_RADIUS, CUE_LENGTH>>, <<BUMPER_RADIUS, BUMPER_LENGTH>>, <<CUE_RADIUS, 0>>}
UnwrapInit ==
    /\ script = "unwrap_cylinder_side_only"
    /\ LayerIdle
    /\ bpc = "u_enter"
    /\ \E segments \in RingSizes, shape \in UnwrapShapes, has_uv \in BOOLEAN,
          z \in {0, CUE_LENGTH \div 2}, sel \in BOOLEAN :
          /\ scene = Scene(<<[PrimitiveCylinder(segments, shape[1], shape[2], <<0, 0, z>>)
                                EXCEPT !.uv_layer = has_uv, !.selected = sel]>>, 0)
          /\ loc = [ButtLocals(segments) EXCEPT !.obj = 1, !.ret = "end"]
    /\ files = NoOutput

UnwrapNext ==
    \/ UnwrapEnter
    \/ UnwrapFace
    \/ UnwrapLeave

SpecUnwrap == UnwrapInit /\ [][UnwrapNext]_vars

(***************************************************************************)
(* C13.  unwrap_cylinder_side_only gives every loop of an end-cap face     *)
(* (|normal.z| > 0.9) the UV point (0.5, 0.005) and every loop of every    *)
(* other face u = (atan2(y, x) + pi) / (2 pi) and                          *)
(* v = (z - z_min) / (z_max - z_min) of its vertex, v = 0.5 when           *)
(* z_max = z_min; every UV written lies in [0, 1] x [0, 1].  On the        *)
(* primitive, whose ring vertex k stands at (sin, cos) of 2 pi k / n, that *)
(* u is 0.75 - k / n up to a whole turn.  The vertices are not moved.      *)
(***************************************************************************)
Turn(u) == SetMin({u % Scale, Scale - (u % Scale)})
C13_SideOnlyUnwrap ==
    (script = "unwrap_cylinder_side_only" /\ bpc = "end") =>
        LET obj == scene.objects[loc.obj]
            z_min == SetMin(Zs(obj.verts))
            z_max == SetMax(Zs(obj.verts))
        IN  /\ obj.uv_layer
            /\ \A f \in DOMAIN obj.faces :
                  /\ DOMAIN obj.faces[f].uv = DOMAIN obj.faces[f].loops
                  /\ \A l \in DOMAIN obj.faces[f].loops :
                        LET n == obj.faces[f].loops[l]
                            co == obj.verts[n]
                            uv == obj.faces[f].uv[l]
                        IN  /\ uv[1] \in 0 .. Scale
                            /\ uv[2] \in 0 .. Scale
                            /\ Abs(obj.faces[f].normal[3]) > 900 => uv = <<500, 5>>
                            /\ Abs(obj.faces[f].normal[3]) <= 900 =>
                                  /\ uv[1] = ((Atan2(co[2], co[1]) + PiFx) * Scale)
                                                \div TwoPiFx
                                  /\ Turn(uv[1] + Scale - 750
                                          + Ratio((n - 1) \div 2, loc.segments)) <= 3
                                  /\ z_max > z_min =>
                                        uv[2] = Ratio(co[3] - z_min, z_max - z_min)
                                  /\ z_max = z_min => uv[2] = 500

\* the cue body has been unwrapped: cap loops collapsed, side loops spread
C13_Witness ==
    /\ script = "unwrap_cylinder_side_only"
    /\ bpc = "end"
    /\ LET obj == scene.objects[loc.obj]
       IN  /\ SetMax(Zs(obj.verts)) > SetMin(Zs(obj.verts))
           /\ \E f \in DOMAIN obj.faces : obj.faces[f].uv[1] = <<500, 5>>
           /\ \E f \in DOMAIN obj.faces :
                 /\ obj.faces[f].normal[3] = 0
                 /\ \E l \in DOMAIN obj.faces[f].uv : obj.faces[f].uv[l][2] = 0
                 /\ \E l \in DOMAIN obj.faces[f].uv : obj.faces[f].uv[l][2] = Scale

(***************************************************************************)
(* create_cue.py                                                           *)
(***************************************************************************)
\* (length, radius_start, radius_end, name, is_customizable), in millimetres
StickSegments ==
    << [length |-> 10,  r_start |-> 6,  r_end |-> 6,  name |-> "Tip",        is_custom |-> FALSE],
       [length |-> 25,  r_start |-> 6,  r_end |-> 7,  name |-> "Ferrule",    is_custom |-> FALSE],
       [length |-> 350, r_start |-> 7,  r_end |-> 10, name |-> "Shaft",      is_custom |-> FALSE],
       [length |-> 20,  r_start |-> 12, r_end |-> 12, name |-> "Joint",      is_custom |-> FALSE],
       [length |-> 250, r_start |-> 12, r_end |-> 14, name |-> "Forearm",    is_custom |-> FALSE],
       [length |-> 450, r_start |-> 14, r_end |-> 15, name |-> "CustomWrap", is_custom |-> TRUE],
       [length |-> 150, r_start |-> 15, r_end |-> 16, name |-> "ButtSleeve", is_custom |-> FALSE],
       [length |-> 25,  r_start |-> 16, r_end |-> 14, name |-> "Bumper",     is_custom |-> FALSE] >>

StickLocals(segments) ==
    [segments |-> segments, k |-> 1, z_offset |-> 0, obj |-> 0,
     all_objects |-> <<>>, customizable_objects |-> <<>>, sections |-> <<>>]

StickInit ==
    /\ script = "create_cue"
    /\ LayerIdle
    /\ bpc = "s_clear"
    /\ scene \in StartScenes
    /\ \E segments \in RingSizes : loc = StickLocals(segments)
    /\ files = NoOutput

\* clear_scene()
S_Clear ==
    /\ bpc = "s_clear"
    /\ scene' = ClearAll(scene)
    /\ bpc' = "s_segment"
    /\ UNCHANGED <<layerVars, script, loc, files>>

\* the head of one pass of the segment loop: the cylinder and its name
S_Segment ==
    /\ bpc = "s_segment"
    /\ loc.k <= Len(StickSegments)
    /\ LET seg == StickSegments[loc.k]
           length == seg.length * MmToUnits
       IN  /\ scene' = AddObject(scene,
                   [PrimitiveCylinder(loc.segments, seg.r_start * MmToUnits, length,
                                      <<0, 0, loc.z_offset + length \div 2>>)
                       EXCEPT !.name = seg.name])
           /\ bpc' = IF seg.r_start # seg.r_end THEN "s_taper" ELSE "s_material"
    /\ loc' = [loc EXCEPT !.obj = Len(scene.objects) + 1]
    /\ UNCHANGED <<layerVars, script, files>>

\* in edit mode the vertices above the middle are scaled by r_end / r_start
S_Taper ==
    /\ bpc = "s_taper"
    /\ LET seg == StickSegments[loc.k]
           obj == scene.objects[loc.obj]
           scaled == [obj EXCEPT !.verts =
                         [n \in DOMAIN obj.verts |->
                             IF obj.verts[n][3] > 0
                             THEN <<Rescale(obj.verts[n][1], seg.r_end, seg.r_start),
                                    Rescale(obj.verts[n][2], seg.r_end, seg.r_start),
                                    obj.verts[n][3]>>
                             ELSE obj.verts[n]]]
       IN  scene' = ModeSet([ModeSet(scene, "EDIT") EXCEPT !.objects[loc.obj] = scaled],
                            "OBJECT")
    /\ bpc' = "s_material"
    /\ UNCHANGED <<layerVars, script, loc, files>>

\* f"{name}_Material", renamed "CustomizableLayer" on the customizable
\* segment
StickMaterialName(name, is_custom) ==
    IF is_custom THEN "CustomizableLayer" ELSE name \o "_Material"

\* the tail of one pass of the segment loop
S_Material ==
    /\ bpc = "s_material"
    /\ LET seg == StickSegments[loc.k]
           mat == StickMaterialName(seg.name, seg.is_custom)
       IN  /\ scene' = WithMaterial(scene, loc.obj, mat)
           /\ loc' = [loc EXCEPT
                   !.customizable_objects =
                       IF seg.is_custom THEN Append(loc.customizable_objects, loc.obj)
                       ELSE loc.customizable_objects,
                   !.all_objects = Append(loc.all_objects, loc.obj),
                   !.sections = Append(loc.sections,
                                       [name |-> seg.name, material |-> mat,
                                        customizable |-> seg.is_custom]),
                   !.z_offset = loc.z_offset + seg.length * MmToUnits,
                   !.k = loc.k + 1]
    /\ bpc' = "s_segment"
    /\ UNCHANGED <<layerVars, script, files>>

\* cylinder_project on every customizable object, one after the other
RECURSIVE ProjectEach(_, _)
ProjectEach(sc, objs) ==
    IF objs = <<>> THEN sc
    ELSE ProjectEach(
             ModeSet([ModeSet([sc EXCEPT !.active = objs[1],
                                         !.objects[objs[1]].selected = TRUE], "EDIT")
                         EXCEPT !.objects[objs[1]] = CylinderProject(sc.objects[objs[1]])],
                     "OBJECT"),
             Tail(objs))

S_UV ==
    /\ bpc = "s_segment"
    /\ loc.k > Len(StickSegments)
    /\ scene' = ProjectEach(scene, loc.customizable_objects)
    /\ bpc' = "s_join"
    /\ UNCHANGED <<layerVars, script, loc, files>>

\* the other segments are joined into "CueStick"; the customizable one is
\* named "CustomizableSection"
S_Join ==
    /\ bpc = "s_join"
    /\ LET custom == {loc.customizable_objects[n] : n \in DOMAIN loc.customizable_objects}
           non_custom == SelectSeq(loc.all_objects, LAMBDA o : o \notin custom)
           picked == [SelectOnly(scene, {non_custom[n] : n \in DOMAIN non_custom})
                         EXCEPT !.active = non_custom[1]]
           joined == Join(picked)
           main_cue == [joined EXCEPT !.objects[joined.active].name = "CueStick"]
       IN  scene' = [main_cue EXCEPT !.objects =
                        [n \in DOMAIN main_cue.objects |->
                            IF main_cue.objects[n].name = "CustomWrap"
                            THEN [main_cue.objects[n] EXCEPT !.name = "CustomizableSection"]
                            ELSE main_cue.objects[n]]]
    /\ bpc' = "s_rotate"
    /\ UNCHANGED <<layerVars, script, loc, files>>

\* rotation_euler[0] = radians(-90), applied to the mesh
RotateX(obj) ==
    [obj EXCEPT
        !.verts = [n \in DOMAIN obj.verts |->
                      <<obj.verts[n][1], obj.verts[n][3], 0 - obj.verts[n][2]>>],
        !.faces = [f \in DOMAIN obj.faces |->
                      [obj.faces[f] EXCEPT !.normal =
                          <<obj.faces[f].normal[1], obj.faces[f].normal[3],
                            0 - obj.faces[f].normal[2]>>]]]

\* everything is selected, laid horizontally, and
\* transform_apply(location=False, rotation=True, scale=True)
S_Rotate ==
    /\ bpc = "s_rotate"
    /\ scene' = [scene EXCEPT !.objects =
                    [n \in DOMAIN scene.objects |->
                        [RotateX(scene.objects[n]) EXCEPT !.selected = TRUE]]]
    /\ bpc' = "done"
    /\ UNCHANGED <<layerVars, script, loc, files>>

StickNext ==
    \/ S_Clear
    \/ S_Segment
    \/ S_Taper
    \/ S_Material
    \/ S_UV
    \/ S_Join
    \/ S_Rotate

SpecStick == StickInit /\ [][StickNext]_vars

\* the five generator scripts, one per run
GeneratorsInit == Init \/ GenerateInit \/ ExportInit \/ ButtInit \/ StickInit
GeneratorsNext == Next \/ GenerateNext \/ ExportNext \/ ButtNext \/ StickNext
SpecGenerators == GeneratorsInit /\ [][GeneratorsNext]_vars

\* the name search of the customizer: lower-cased, containing "outside" or
\* "body"
UpperCase == "ABCDEFGHIJKLMNOPQRSTUVWXYZ"
LowerCase == "abcdefghijklmnopqrstuvwxyz"
LowerChar(c) ==
    IF \E i \in 1 .. Len(UpperCase) : SubSeq(UpperCase, i, i) = c
    THEN LET i == CHOOSE i \in 1 .. Len(UpperCase) : SubSeq(UpperCase, i, i) = c
         IN  SubSeq(LowerCase, i, i)
    ELSE c
RECURSIVE Lower(_)
Lower(s) ==
    IF Len(s) = 0 THEN ""
    ELSE LowerChar(SubSeq(s, 1, 1)) \o Lower(SubSeq(s, 2, Len(s)))
Contains(s, sub) ==
    \E i \in 1 .. (Len(s) - Len(sub) + 1) : SubSeq(s, i, i + Len(sub) - 1) = sub
IsCustomizableName(name) ==
    Contains(Lower(name), "outside") \/ Contains(Lower(name), "body")

(***************************************************************************)
(* C12.  Material-name contract: at the end of a run of each generator     *)
(* script, the material assigned to a section contains "outside" or "body" *)
(* (case-insensitively) exactly when that section is the customizable one, *)
(* and the script has produced exactly one such material.                  *)
(***************************************************************************)
C12_MaterialNameContract ==
    /\ (script \in {"generate_cue", "create_cue_export", "create_cue_butt", "create_cue"}
            /\ bpc = "done") =>
          /\ \A n \in DOMAIN loc.sections :
                IsCustomizableName(loc.sections[n].material)
                    <=> loc.sections[n].customizable
          /\ Cardinality({n \in DOMAIN scene.materials :
                             IsCustomizableName(scene.materials[n])}) = 1
    /\ (script = "add_cue_customizable_layer" /\ pc = "done") =>
          /\ IsCustomizableName(At(gltf.materials, material_idx).name)
          /\ Cardinality({n \in 1 .. Len(gltf.materials) :
                             /\ n > Len(old.materials)
                             /\ IsCustomizableName(gltf.materials[n].name)}) = 1

\* the contract on the four scripts that follow it
C12_ContractElsewhere ==
    script # "create_cue" => C12_MaterialNameContract
C12_ElsewhereWitness ==
    /\ script = "create_cue_butt"
    /\ bpc = "done"
    /\ IsCustomizableName("CueButt_Body_Material")
    /\ ~IsCustomizableName("Rubber_Bumper")

(***************************************************************************)
(* pool_cue_constants.py: the tables and the helper functions, called in   *)
(* any order by an importing script.  Lengths are in tenths of a           *)
(* millimetre.                                                             *)
(***************************************************************************)
Segment(name, order, length_mm, diameter_start_mm, diameter_end_mm, material,
        is_customizable) ==
    [name |-> name, order |-> order, length_mm |-> length_mm,
     diameter_start_mm |-> diameter_start_mm, diameter_end_mm |-> diameter_end_mm,
     material |-> material, is_customizable |-> is_customizable]

SEGMENTS ==
    << Segment("tip",          1, 50,   120, 120, "tip_leather",     FALSE),
       Segment("ferrule",      2, 250,  120, 125, "ferrule_plastic", FALSE),
       Segment("shaft",        3, 7300, 125, 140, "shaft_maple",     FALSE),
       Segment("joint_collar", 4, 150,  140, 140, "joint_brass",     FALSE),
       Segment("forearm",      5, 2000, 140, 200, "forearm_wood",    FALSE),
       Segment("wrap",         6, 3000, 200, 240, "outside",         TRUE),
       Segment("butt_sleeve",  7, 1500, 240, 280, "butt_wood",       FALSE),
       Segment("bumper",       8, 100,  280, 290, "bumper_rubber",   FALSE) >>

DECORATIVE_RINGS ==
    << [name |-> "ring_forearm_end", position_after_segment |-> "forearm",
        offset_mm |-> 0 - 50, length_mm |-> 30, diameter_mm |-> 205,
        material |-> "ring_gold"],
       [name |-> "ring_wrap_end", position_after_segment |-> "wrap",
        offset_mm |-> 50, length_mm |-> 30, diameter_mm |-> 245,
        material |-> "ring_gold"] >>

TOTAL_LENGTH_MM == 14350

\* the names a caller asks get_segment_by_name for: every segment's, and
\* one that no segment has
AskedNames == {SEGMENTS[k].name : k \in DOMAIN SEGMENTS} \cup {"grip"}

\* a result not yet asked for
Unset == [set |-> FALSE]
Result(v) == [set |-> TRUE, value |-> v]

ConstantsLocals ==
    [name |-> "", i |-> 0, sum |-> 0, current_y |-> 0, positions |-> <<>>,
     by_name |-> Unset, customizable |-> Unset, total |-> Unset,
     segment_positions |-> Unset]

ConstantsInit ==
    /\ script = "pool_cue_constants"
    /\ LayerIdle
    /\ bpc = "idle"
    /\ scene = <<>>
    /\ loc = ConstantsLocals
    /\ files = <<>>

\* get_segment_by_name(name): the call
ByNameCall ==
    /\ bpc = "idle"
    /\ \E name \in AskedNames : loc' = [loc EXCEPT !.name = name, !.i = 1]
    /\ bpc' = "by_name"
    /\ UNCHANGED <<layerVars, script, scene, files>>

\* one pass of its loop that does not return
ByNameStep ==
    /\ bpc = "by_name"
    /\ loc.i <= Len(SEGMENTS)
    /\ SEGMENTS[loc.i].name # loc.name
    /\ loc' = [loc EXCEPT !.i = loc.i + 1]
    /\ UNCHANGED <<layerVars, script, bpc, scene, files>>

\* return seg, or None (0) after the loop
ByNameReturn ==
    /\ bpc = "by_name"
    /\ IF loc.i > Len(SEGMENTS) THEN TRUE ELSE SEGMENTS[loc.i].name = loc.name
    /\ loc' = [loc EXCEPT
            !.by_name = Result(IF loc.i > Len(SEGMENTS) THEN 0 ELSE loc.i),
            !.i = 0]
    /\ bpc' = "idle"
    /\ UNCHANGED <<layerVars, script, scene, files>>

\* variant: the first long segment is taken
LongSegment(seg) == seg.length_mm >= 3000

\* if seg.is_customizable
Customizable(seg) == seg.is_customizable

\* get_customizable_segment(): the call
CustomizableCall ==
    /\ bpc = "idle"
    /\ loc' = [loc EXCEPT !.i = 1]
    /\ bpc' = "customizable"
    /\ UNCHANGED <<layerVars, script, scene, files>>

CustomizableStep ==
    /\ bpc = "customizable"
    /\ loc.i <= Len(SEGMENTS)
    /\ ~Customizable(SEGMENTS[loc.i])
    /\ loc' = [loc EXCEPT !.i = loc.i + 1]
    /\ UNCHANGED <<layerVars, script, bpc, scene, files>>

CustomizableReturn ==
    /\ bpc = "customizable"
    /\ IF loc.i > Len(SEGMENTS) THEN TRUE ELSE Customizable(SEGMENTS[loc.i])
    /\ loc' = [loc EXCEPT
            !.customizable = Result(IF loc.i > Len(SEGMENTS) THEN 0 ELSE loc.i),
            !.i = 0]
    /\ bpc' = "idle"
    /\ UNCHANGED <<layerVars, script, scene, files>>

\* calculate_total_length(): sum(seg.length_mm for seg in SEGMENTS)
TotalCall ==
    /\ bpc = "idle"
    /\ loc' = [loc EXCEPT !.i = 1, !.sum = 0]
    /\ bpc' = "total"
    /\ UNCHANGED <<layerVars, script, scene, files>>

TotalStep ==
    /\ bpc = "total"
    /\ loc.i <= Len(SEGMENTS)
    /\ loc' = [loc EXCEPT !.sum = loc.sum + SEGMENTS[loc.i].length_mm,
                          !.i = loc.i + 1]
    /\ UNCHANGED <<layerVars, script, bpc, scene, files>>

TotalReturn ==
    /\ bpc = "total"
    /\ loc.i > Len(SEGMENTS)
    /\ loc' = [loc EXCEPT !.total = Result(loc.sum), !.i = 0, !.sum = 0]
    /\ bpc' = "idle"
    /\ UNCHANGED <<layerVars, script, scene, files>>

\* variant: the walk starts at the top end
StartYAtTop == TOTAL_LENGTH_MM \div 2

\* current_y = -TOTAL_LENGTH_MM / 2
StartY == 0 - TOTAL_LENGTH_MM \div 2

\* get_segment_positions(): the call
PositionsCall ==
    /\ bpc = "idle"
    /\ loc' = [loc EXCEPT !.i = Len(SEGMENTS), !.current_y = StartY,
                          !.positions = <<>>]
    /\ bpc' = "positions"
    /\ UNCHANGED <<layerVars, script, scene, files>>

\* one pass of "for seg in reversed(SEGMENTS)"
PositionsStep ==
    /\ bpc = "positions"
    /\ loc.i >= 1
    /\ LET seg == SEGMENTS[loc.i]
       IN  loc' = [loc EXCEPT
               !.positions = Append(SelectSeq(loc.positions,
                                              LAMBDA e : e.name # seg.name),
                                    [name |-> seg.name, y |-> loc.current_y]),
               !.current_y = loc.current_y + seg.length_mm,
               !.i = loc.i - 1]
    /\ UNCHANGED <<layerVars, script, bpc, scene, files>>

PositionsReturn ==
    /\ bpc = "positions"
    /\ loc.i = 0
    /\ loc' = [loc EXCEPT !.segment_positions = Result(loc.positions),
                          !.positions = <<>>, !.current_y = 0]
    /\ bpc' = "idle"
    /\ UNCHANGED <<layerVars, script, scene, files>>

ConstantsNext ==
    \/ ByNameCall
    \/ ByNameStep
    \/ ByNameReturn
    \/ CustomizableCall
    \/ CustomizableStep
    \/ CustomizableReturn
    \/ TotalCall
    \/ TotalStep
    \/ TotalReturn
    \/ PositionsCall
    \/ PositionsStep
    \/ PositionsReturn

SpecConstants == ConstantsInit /\ [][ConstantsNext]_vars

\* positions[name] of a returned dictionary
PositionOf(returned, name) ==
    (CHOOSE n \in DOMAIN returned : returned[n].name = name)

(***************************************************************************)
(* C21.  TOTAL_LENGTH_MM equals calculate_total_length(), and              *)
(* get_segment_positions tiles [-TOTAL_LENGTH_MM/2, +TOTAL_LENGTH_MM/2]:   *)
(* the bumper starts at -TOTAL_LENGTH_MM/2, each segment's position plus   *)
(* its length is the position of the next segment toward the tip, and the  *)
(* tip's position plus its length is +TOTAL_LENGTH_MM/2.                   *)
(***************************************************************************)
C21_PositionsTile ==
    script = "pool_cue_constants" =>
        /\ loc.total.set => loc.total.value = TOTAL_LENGTH_MM
        /\ loc.segment_positions.set =>
              LET returned == loc.segment_positions.value
                  y(k) == returned[PositionOf(returned, SEGMENTS[k].name)].y
              IN  /\ {returned[n].name : n \in DOMAIN returned}
                        = {SEGMENTS[k].name : k \in DOMAIN SEGMENTS}
                  /\ Len(returned) = Len(SEGMENTS)
                  /\ 2 * y(Len(SEGMENTS)) = 0 - TOTAL_LENGTH_MM
                  /\ \A k \in 2 .. Len(SEGMENTS) :
                        y(k) + SEGMENTS[k].length_mm = y(k - 1)
                  /\ 2 * (y(1) + SEGMENTS[1].length_mm) = TOTAL_LENGTH_MM

\* both functions have returned
C21_Witness ==
    /\ script = "pool_cue_constants"
    /\ loc.total.set
    /\ loc.segment_positions.set
    /\ Len(loc.segment_positions.value) = 8

(***************************************************************************)
(* C22.  Exactly one entry of SEGMENTS is customizable; it is the entry    *)
(* whose material is "outside"; no other segment and no ring uses that     *)
(* material; get_customizable_segment() returns that entry, never None.    *)
(***************************************************************************)
C22_OneCustomizable ==
    script = "pool_cue_constants" =>
        /\ Cardinality({k \in DOMAIN SEGMENTS : SEGMENTS[k].is_customizable}) = 1
        /\ \A k \in DOMAIN SEGMENTS :
              SEGMENTS[k].is_customizable <=> SEGMENTS[k].material = "outside"
        /\ \A r \in DOMAIN DECORATIVE_RINGS : DECORATIVE_RINGS[r].material # "outside"
        /\ loc.customizable.set =>
              /\ loc.customizable.value # 0
              /\ SEGMENTS[loc.customizable.value].is_customizable
              /\ SEGMENTS[loc.customizable.value].material = "outside"

\* get_customizable_segment() has returned the wrap
C22_Witness ==
    /\ script = "pool_cue_constants"
    /\ loc.customizable.set
    /\ loc.customizable.value = 6
    /\ bpc = "idle"

(***************************************************************************)
(* C23.  get_uv_pixel_dimensions partitions the UV points by face: all     *)
(* points of a face go to the rectangle group when the mean V of the face  *)
(* is above 0.45 and all go to the circle group otherwise; no face is      *)
(* split, no loop's point is in both groups, the two groups together have  *)
(* as many points as all_uvs, and the rectangle bounds reported are the    *)
(* minimum and maximum of U and V over the rectangle group only.           *)
(***************************************************************************)
RECURSIVE GroupOf(_, _, _)
GroupOf(faces, n, rect) ==
    IF n = 0 THEN <<>>
    ELSE LET uv == faces[n].uv
             above == SumV(uv) > 450 * Len(uv)
         IN  GroupOf(faces, n - 1, rect) \o (IF above = rect THEN uv ELSE <<>>)
RECURSIVE AllOf(_, _)
AllOf(faces, n) == IF n = 0 THEN <<>> ELSE AllOf(faces, n - 1) \o faces[n].uv
C23_PartitionByFace ==
    (script = "check_uv_dimensions" /\ loc.f >= 1) =>
        LET seen == loc.f - 1
            rect == GroupOf(loc.bm_faces, seen, TRUE)
        IN  /\ loc.all_uvs = AllOf(loc.bm_faces, seen)
            /\ loc.rect_uvs = rect
            /\ loc.circle_uvs = GroupOf(loc.bm_faces, seen, FALSE)
            /\ Len(loc.rect_uvs) + Len(loc.circle_uvs) = Len(loc.all_uvs)
            /\ loc.stats.computed =>
                  /\ seen = Len(loc.bm_faces)
                  /\ loc.stats.rect_min_u = SetMin(Us(rect))
                  /\ loc.stats.rect_max_u = SetMax(Us(rect))
                  /\ loc.stats.rect_min_v = SetMin(Vs(rect))
                  /\ loc.stats.rect_max_v = SetMax(Vs(rect))
                  /\ loc.result[5] = Line("U: {} -> {}", <<SetMin(Us(rect)), SetMax(Us(rect))>>)
                  /\ loc.result[6] = Line("V: {} -> {}", <<SetMin(Vs(rect)), SetMax(Vs(rect))>>)

\* a mesh with faces on both sides of the threshold has been measured, one
\* of them with a mean V of exactly 0.45
C23_Witness ==
    /\ script = "check_uv_dimensions"
    /\ bpc = "end"
    /\ loc.stats.computed
    /\ Len(loc.rect_uvs) = 4
    /\ Len(loc.circle_uvs) = 7
    /\ \E f \in DOMAIN loc.bm_faces :
          SumV(loc.bm_faces[f].uv) = 450 * Len(loc.bm_faces[f].uv)

(***************************************************************************)
(* C24.  In create_cue_butt.py the UVs that unwrap_cylinder_side_only      *)
(* wrote to the cue body are still in place when the model is joined and   *)
(* exported: the loops of its cap faces at (0.5, 0.005), the loops of its  *)
(* side faces at V = 0 or V = 1; the smart_project step done for the       *)
(* bumper leaves them alone.                                               *)
(***************************************************************************)
C24_BodyUVsKept ==
    (script = "create_cue_butt" /\ bpc \in {"b_join", "b_apply", "b_export", "done"}) =>
        LET body == scene.objects[loc.cue_body]
        IN  \A f \in 1 .. (loc.segments + 2) :
               \A l \in DOMAIN body.faces[f].uv :
                  IF IsCap(body.faces[f].normal)
                  THEN body.faces[f].uv[l] = <<500, 5>>
                  ELSE body.faces[f].uv[l][2] \in {0, Scale}

(***************************************************************************)
(* C25.  smooth_cue.main runs its steps strictly in the order clear scene, *)
(* import, smooth shading, apply modifiers, export.  Every mesh object     *)
(* gets an Edge Split modifier before a Weighted Normal modifier (and a    *)
(* Subdivision modifier last only when USE_SUBDIVISION is set), a non-mesh *)
(* object gets none; the modifiers of an object are applied in stack       *)
(* order; the export happens only after an attempt has been made for every *)
(* modifier of every mesh object.                                          *)
(***************************************************************************)
StepRank(at) ==
    CASE at = "clear_scene" -> 1
      [] at = "import" -> 2
      [] at = "shade" -> 3
      [] at \in {"apply", "apply_mod"} -> 4
      [] at = "export" -> 5
      [] at = "done" -> 6
      [] OTHER -> 7
\* the names of the attempts made on object k so far
AttemptedOn(k) ==
    [n \in 1 .. Len(AttemptsOn(k)) |-> AttemptsOn(k)[n].mod]
C25_StackBuilt ==
    (script = "smooth_cue" /\ bpc = "apply" /\ loc.i = 1 /\ loc.attempts = <<>>) =>
        \A k \in 1 .. Len(scene.objects) :
            IF IsMesh(scene.objects[k])
            THEN /\ scene.objects[k].smooth
                 /\ scene.objects[k].modifiers =
                       files.input.objects[k].modifiers
                       \o <<"EdgeSplit", "WeightedNormal">>
                       \o (IF USE_SUBDIVISION THEN <<"Subdivision">> ELSE <<>>)
            ELSE scene.objects[k].modifiers = <<>>
C25_ExportLast ==
    script = "smooth_cue" =>
        /\ files.output.exists => bpc = "done"
        /\ bpc \in {"export", "done"} =>
              \A k \in 1 .. Len(scene.objects) :
                  IF IsMesh(scene.objects[k])
                  THEN AttemptedOn(k) =
                          files.input.objects[k].modifiers
                          \o <<"EdgeSplit", "WeightedNormal">>
                          \o (IF USE_SUBDIVISION THEN <<"Subdivision">> ELSE <<>>)
                  ELSE AttemptedOn(k) = <<>>
        /\ StepRank(bpc) <= 3 => loc.attempts = <<>>
        /\ StepRank(bpc) <= 2 =>
              \A k \in 1 .. Len(scene.objects) : scene.objects[k].modifiers = <<>>
C25_InOrder ==
    script = "smooth_cue" =>
        /\ StepRank(bpc') >= StepRank(bpc)
        /\ StepRank(bpc') <= StepRank(bpc) + 1 \/ bpc' = "aborted"
        /\ loc'.imports <= 1
        /\ loc'.attempts # loc.attempts =>
              /\ bpc = "apply_mod"
              /\ loc'.attempts = Append(loc.attempts, loc'.attempts[Len(loc'.attempts)])
              /\ loc'.attempts[Len(loc'.attempts)].obj = scene.active
              /\ loc'.attempts[Len(loc'.attempts)].mod = loc.stack[loc.j]
C25_StrictOrder ==
    /\ []C25_StackBuilt
    /\ []C25_ExportLast
    /\ [][C25_InOrder]_vars

\* a skinned mesh and an object that is not a mesh went through all five
\* steps, with one failed attempt
C25_Witness ==
    /\ script = "smooth_cue"
    /\ bpc = "done"
    /\ files.output.exists
    /\ \E k \in 1 .. Len(scene.objects) :
          /\ IsMesh(scene.objects[k])
          /\ AttemptedOn(k) = <<"Armature", "EdgeSplit", "WeightedNormal">>
    /\ \E k \in 1 .. Len(scene.objects) : ~IsMesh(scene.objects[k])
    /\ \E n \in 1 .. Len(loc.attempts) : ~loc.attempts[n].ok

(***************************************************************************)
(* C26.  get_uv_pixel_dimensions returns "ERROR: No mesh object found!"    *)
(* only when the scene holds no mesh object: whenever an object of type    *)
(* MESH exists, whatever the active object is, a mesh is measured.         *)
(***************************************************************************)
C26_ErrorOnlyWithoutMesh ==
    (script = "check_uv_dimensions" /\ bpc = "end") =>
        IF NoMeshInScene
        THEN /\ loc.result # <<>>
             /\ loc.result[1].text = "ERROR: No mesh object found!"
        ELSE /\ MeshMeasured
             /\ (loc.result # <<>> =>
                    loc.result[1].text # "ERROR: No mesh object found!")

(***************************************************************************)
(* C27.  In get_uv_pixel_dimensions the temporary bmesh is released on     *)
(* every path: once bmesh.new() has been called, bm.free() is called       *)
(* exactly once before the function returns (no UV layer, no rectangle     *)
(* UVs, success), and the bmesh is never read after it was freed.          *)
(***************************************************************************)
C27_FreedOnce ==
    script = "check_uv_dimensions" =>
        /\ loc.frees <= 1
        /\ loc.bm = "none" <=> loc.frees = 0 /\ bpc # "faces"
        /\ loc.bm = "live" <=> bpc = "faces"
        /\ loc.bm = "freed" <=> loc.frees = 1
        /\ bpc = "stats" => loc.bm = "freed"
        /\ bpc = "end" =>
              IF loc.obj = 0 \/ ~IsMesh(scene.objects[loc.obj])
              THEN loc.bm = "none"
              ELSE loc.bm = "freed"
\* the face loop is the only reader of the bmesh: what it collects changes
\* only while the bmesh is live
C27_ReadsLive ==
    (/\ script = "check_uv_dimensions"
     /\ \/ loc'.f # loc.f
        \/ loc'.all_uvs # loc.all_uvs
        \/ loc'.rect_uvs # loc.rect_uvs
        \/ loc'.circle_uvs # loc.circle_uvs
        \/ loc'.bm_faces # loc.bm_faces) =>
        /\ loc.bm # "freed"
        /\ loc'.bm = "live"
C27_BmeshReleased ==
    /\ []C27_FreedOnce
    /\ [][C27_ReadsLive]_vars

\* the run that measured a rectangle: faces were read, then the bmesh was
\* freed, then the statistics were computed
C27_Witness ==
    /\ script = "check_uv_dimensions"
    /\ bpc = "end"
    /\ loc.stats.computed
    /\ Len(loc.rect_uvs) > 0
    /\ Len(loc.circle_uvs) > 0
    /\ loc.bm = "freed"
    /\ loc.frees = 1

(***************************************************************************)
(* C28.  In the generator scripts (create_cue.py, create_cue_butt.py,      *)
(* create_cue_export.py, generate_cue.py) every switch to EDIT mode is     *)
(* followed by a switch back to OBJECT mode before an object-level         *)
(* operation (primitive add, join, transform_apply, origin_set, export),   *)
(* so the host is in OBJECT mode at each such operation and when the       *)
(* script ends.                                                            *)
(***************************************************************************)
GeneratorScripts ==
    {"create_cue", "create_cue_butt", "create_cue_export", "generate_cue"}
\* the positions inside a bmesh edit of one object
InEditAt == {"t_vertex", "e_vertex", "u_face"}
\* the positions whose next step is an object-level operation, and the end
ObjectLevelAt ==
    {"g_section", "g_join", "g_apply", "g_export",
     "e_section", "e_apply", "e_export",
     "b_body", "b_bumper", "b_join", "b_apply", "b_export",
     "s_segment", "s_join", "s_rotate", "done"}
C28_ObjectModeAtObjectOps ==
    script \in GeneratorScripts =>
        /\ bpc \in ObjectLevelAt => scene.mode = "OBJECT" /\ scene.editing = {}
        /\ scene.mode = "EDIT" <=> bpc \in InEditAt
        /\ scene.mode = "EDIT" => scene.editing # {}

\* generate_cue.py after the tapers of all its sections and the merge of
\* the doubles, about to apply the transforms
C28_Witness ==
    /\ script = "generate_cue"
    /\ bpc = "g_apply"
    /\ Len(loc.sections) = Len(PoolCueSections)
    /\ scene.mode = "OBJECT"
    /\ scene.editing = {}

(***************************************************************************)
(* create_cylinder_mesh_data called with any segment count: its index loop *)
(* and the conversion of the list to an unsigned 16-bit array.  For a ring *)
(* of more than MaxRing segments only the last passes of the loop are      *)
(* followed: loc.indices is then the tail of the list, from quad           *)
(* loc.first on; the largest entries of the list are in its last quad.     *)
(***************************************************************************)
IndexSegmentCounts ==
    {3, 4, 5, 6, 8, 16, 32, 64, 100, 1000, 32765, 32766, 32767, 32768,
     32769, 32770, 40000, 50000, 65535, 65536, 70000, 100000}

IndexInit ==
    /\ script = "create_cylinder_mesh_data"
    /\ LayerIdle
    /\ bpc = "i_loop"
    /\ scene = <<>>
    /\ files = <<>>
    /\ \E n \in IndexSegmentCounts :
          \E first \in {k \in {0, n - 2, n - 1} : n <= MaxRing \/ k > 0} :
             loc = [segments |-> n, first |-> first, i |-> first,
                    indices |-> <<>>, stored |-> <<>>, outcome |-> "running"]

\* one pass of "for i in range(segments)": the two triangles of quad i
IndexStep ==
    /\ script = "create_cylinder_mesh_data"
    /\ bpc = "i_loop"
    /\ loc.i < loc.segments
    /\ loc' = [loc EXCEPT !.indices = loc.indices \o QuadIndices(loc.i),
                          !.i = loc.i + 1]
    /\ UNCHANGED <<layerVars, script, bpc, scene, files>>

\* np.array(indices, dtype=np.uint16) where numpy converts a Python int
\* that is out of range modulo 2^16
IndexConvertWrap ==
    /\ script = "create_cylinder_mesh_data"
    /\ bpc = "i_loop"
    /\ loc.i >= loc.segments
    /\ loc' = [loc EXCEPT
            !.stored = [k \in 1 .. Len(loc.indices) |-> UInt16(loc.indices[k])],
            !.outcome = "returned"]
    /\ bpc' = "end"
    /\ UNCHANGED <<layerVars, script, scene, files>>

\* np.array(indices, dtype=np.uint16) where numpy refuses a Python int
\* that is out of range: OverflowError
IndexConvertRaise ==
    /\ script = "create_cylinder_mesh_data"
    /\ bpc = "i_loop"
    /\ loc.i >= loc.segments
    /\ \E k \in 1 .. Len(loc.indices) : loc.indices[k] > 65535
    /\ loc' = [loc EXCEPT !.outcome = "raised"]
    /\ bpc' = "end"
    /\ UNCHANGED <<layerVars, script, scene, files>>

IndexNext ==
    \/ IndexStep
    \/ IndexConvertWrap
    \/ IndexConvertRaise

SpecIndices == IndexInit /\ [][IndexNext]_vars

(***************************************************************************)
(* C29.  For every segment count n >= 3, every value stored in the         *)
(* unsigned 16-bit index array of create_cylinder_mesh_data is the         *)
(* intended vertex number (2i, 2i+1, 2i+2 or 2i+3 for quad i) and is       *)
(* smaller than the vertex count 2(n+1): no index is truncated modulo      *)
(* 2^16.                                                                   *)
(***************************************************************************)
C29_IndicesFit ==
    (script = "create_cylinder_mesh_data" /\ bpc = "end") =>
        /\ loc.outcome = "returned"
        /\ Len(loc.stored) = 6 * (loc.segments - loc.first)
        /\ \A q \in 0 .. (loc.segments - loc.first - 1) :
              LET i == loc.first + q
              IN  /\ loc.stored[6 * q + 1] = 2 * i
                  /\ loc.stored[6 * q + 2] = 2 * i + 1
                  /\ loc.stored[6 * q + 3] = 2 * i + 2
                  /\ loc.stored[6 * q + 4] = 2 * i + 1
                  /\ loc.stored[6 * q + 5] = 2 * i + 3
                  /\ loc.stored[6 * q + 6] = 2 * i + 2
        /\ \A k \in 1 .. Len(loc.stored) : loc.stored[k] < 2 * (loc.segments + 1)

(***************************************************************************)
(* C30.  With the per-vertex projection u = (atan2(y, x) + pi) / (2 pi) of *)
(* unwrap_cylinder_side_only and apply_cylindrical_uv_proper, on a         *)
(* cylinder with S evenly spaced ring vertices the u values of every side  *)
(* quad span 1/S of the texture width: no side face has loops with u near  *)
(* 0 and u near 1 at once.  The span is compared up to the rounding of the *)
(* fixed-point angles.                                                     *)
(***************************************************************************)
USpan(face) ==
    LET us == {face.uv[l][1] : l \in DOMAIN face.uv}
    IN  SetMax(us) - SetMin(us)
C30_NoSeamStretch ==
    (script = "unwrap_cylinder_side_only" /\ bpc = "end") =>
        LET obj == scene.objects[loc.obj]
        IN  \A f \in DOMAIN obj.faces :
               ~IsCap(obj.faces[f].normal) =>
                   USpan(obj.faces[f]) <= Scale \div loc.segments + 6

====
